---- MODULE Spec2Model ----
(***************************************************************************)
(* A model of the Sieve compiler's single-pass code generator              *)
(* (src/src/compiler/grammar/instruction.rs, Compiler::compile) and of the *)
(* jump-threaded program it produces.                                      *)
(*                                                                         *)
(* The script is read one statement at a time.  A statement is the group   *)
(* of tokens one iteration of compile's token loop consumes: a command     *)
(* word with its arguments and its terminating ';' or '{', or a lone '}'.  *)
(* The scripts considered are laid out one statement per line, so the      *)
(* tokenizer's line number is the index of the statement and the column    *)
(* at which a block's '{' is expected is the number of tokens before it.   *)
(* Instruction addresses are 0-based as in the source: the instruction at  *)
(* address a is instructions[a + 1].                                       *)
(***************************************************************************)
EXTENDS Integers, Sequences, FiniteSets, TLC

\* ------------------------------------------------------------------ bounds
\* Statements (the closing '}' not counted) in one script, for each of the
\* specifications below.
MaxStmts == 3
MaxChainStmts == 4
MaxLoopStmts == 3
MaxPartStmts == 3
MaxCapStmts == 3
MaxVarStmts == 5
MaxMatchStmts == 5
MaxWideStmts == 3
MaxSetStmts == 2
MaxActStmts == 3
MaxEventStmts == 2
MaxTwiceStmts == 3
MaxSerdeStmts == 3
\* Calls of set_X / with_X made on one Compiler.
MaxCalls == 2
\* Statements of a script of loops that set a local and break.
MaxSlotStmts == 6
\* Statements of a script of nested blocks, loops and breaks.
MaxBlockStmts == 5
\* Characters of an input of Modifier::apply, and the largest max_variable_size
\* it is called with.
MaxInputLen == 3
MaxApplyLen == 5
\* Calls of add_set_envelope_event on one Context.
MaxEnvelopeCalls == 4
\* The characters of the longest value a set statement gives.
MaxValueLen == 2
\* max_local_variables
MaxLocalVariables == 1
\* max_script_size of the compilations that are checked for the script's size.
MaxScriptSize == 16
\* Match variables ${1}..${MaxMatchVariables} are used.
MaxMatchVariables == 2
MaxCaseStmts == 3
\* MIME parts an iterator pushed by ForEveryPartPush may hold.
MaxParts == 2
\* Compiler::max_nested_blocks of the Compiler under check (set_max_nested_blocks).
MaxNestedBlocks == 2
\* Compiler::max_nested_foreverypart of the Compiler under check.
MaxNestedForEveryPart == 1
\* Compiler::max_includes of the Compiler under check.
MaxIncludes == 1
\* The limit that the global arm compares the length of a name with.
MaxVariableSize == 2
\* Runtime::max_variable_size
MaxRuntimeVariableSize == 2

\* usize::MAX, the placeholder address of a jump not yet backpatched.  TLC's
\* integers are 32 bits wide; the value only has to differ from every address.
USIZE_MAX == 2147483647

\* Labels a script may give to foreverypart / break (:name).
Labels == {"a"}
\* Variable names a script may set.
VarNames == {"x"}
\* Variable names a script may declare global.
GlobalNames == {"x", "yy"}
\* The mailboxes that the scripts file into.
Mailboxes == {"a", "b"}
\* Command words that are no command: one the lexer does not know
\* (Token::Invalid) and a Word that names a test (Token::Identifier).
InvalidWords == {"frobnicate", "header"}
\* The capabilities a script may require.
Capabilities ==
    {"fileinto", "foreverypart", "replace", "enclose", "extracttext", "convert",
     "editheader", "variables", "enotify", "reject", "ereject", "vacation", "ihave",
     "imap4flags", "include", "execute"}
\* The extension commands that compile to one instruction of their own.
ExtWords ==
    {"fileinto", "replace", "enclose", "extracttext", "convert", "addheader",
     "deleteheader", "notify", "reject", "ereject", "vacation", "error", "setflag",
     "addflag", "removeflag", "execute"}

VARIABLES
    budget,           \* the scripts enumerated; replay, first: the script and result of a first compilation
    compiler,         \* the Compiler: its limits and no_capability_check
    script,           \* the statements the tokenizer has handed out so far
    peek,             \* the tokenizer's look-ahead buffer (Tokenizer::peek)
    instructions,     \* CompilerState::instructions
    block_stack,      \* CompilerState::block_stack
    block,            \* CompilerState::block
    last_block_type,  \* CompilerState::last_block_type
    vars_global,      \* CompilerState::vars_global
    vars_num,         \* CompilerState::vars_num
    vars_num_max,     \* CompilerState::vars_num_max
    vars_match_max,   \* CompilerState::vars_match_max
    includes_num,     \* CompilerState::includes_num
    phase,            \* "compile", then "ok" (a Sieve was returned) or "err"; "run", "done"
    error,            \* the CompileError returned when phase = "err"
    sieve,            \* the Sieve returned when phase is "ok" or later
    pc,               \* interpreter: program counter
    test_result,      \* interpreter: result of the last Test
    part_stack,       \* interpreter: stack of part iterators (parts, next part)
    ctx,              \* interpreter: the Context (variables, envelope, events, actions)
    outcome,          \* history: last result of the test of each statement
    last              \* history: address of the instruction executed last, -1 if none

cvars == <<budget, compiler, script, peek, instructions, block_stack, block, last_block_type,
           vars_global, vars_num, vars_num_max, vars_match_max, includes_num,
           phase, error, sieve>>
rvars == <<pc, test_result, part_stack, ctx, outcome, last>>
vars == <<cvars, rvars>>

\* --------------------------------------------------------------- helpers
Last(s) == s[Len(s)]
Front(s) == SubSeq(s, 1, Len(s) - 1)
Reverse(s) == [i \in 1..Len(s) |-> s[Len(s) + 1 - i]]
Max(a, b) == IF a > b THEN a ELSE b

\* Block::new
NewBlock(btype) ==
    [btype |-> btype, label |-> {}, line_num |-> 0, line_pos |-> 0,
     last_block_start |-> 0, if_jmps |-> <<>>, break_jmps |-> <<>>,
     match_test_pos |-> <<>>, match_test_vars |-> {},
     vars_local |-> {}, capabilities |-> {}]

\* Block::with_label: Option<Vec<u8>> is a set holding at most one label.
WithLabel(b, label) == [b EXCEPT !.label = {label}]

NoError == [error_type |-> "none", line_num |-> 0, line_pos |-> 0]
NoSieve == [instructions |-> <<>>, num_vars |-> 0, num_match_vars |-> 0]
\* No compilation has returned yet.
NoResult == [phase |-> "none", sieve |-> NoSieve, error |-> NoError]

\* A statement of the script.
Stmt(w, label, name) ==
    [w |-> w, label |-> label, name |-> name, caps |-> {}, value |-> <<>>,
     modifiers |-> <<>>]
\* A require statement naming the capabilities caps.
StmtRequire(caps) == [Stmt("require", {}, "") EXCEPT !.caps = caps]

\* The line the tokenizer is on while the current statement is read.
Line == Len(script) + 1

BlockWords == {"if", "elsif", "else", "foreverypart"}
NumStmts == Cardinality({i \in 1..Len(script) : script[i].w \notin {"}", "EOF"}})

\* The bytes the tokens of a statement take at least: the command word and
\* its ';' or '{', before that the shortest test (" true") of an if or elsif.
Bytes(w) ==
    CASE w \in {"}", ";"} -> 1
      [] w = "EOF" -> 0
      [] w \in {"if", "elsif"} -> Len(w) + 6
      [] OTHER -> Len(w) + 1

\* The bytes of the statements read so far.
RECURSIVE BytesOf(_)
BytesOf(stmts) ==
    IF stmts = <<>> THEN 0 ELSE Bytes(Last(stmts).w) + BytesOf(Front(stmts))

\* The next token can be the word w: nothing is buffered, or what peek
\* buffered is w, and the script has the bytes for it.
CanRead(w) ==
    /\ phase = "compile"
    /\ BytesOf(script) + Bytes(w) <= budget.size
    /\ \/ peek = "none"
       \/ peek = w
       \/ peek = "other" /\ w \notin {"elsif", "else"}

CanReadStmt(w) == CanRead(w) /\ NumStmts < budget.stmts

\* ----------------------------------------------------- instruction emitters
\* Each instruction carries src, the line of the statement that emitted it.
ITest(src) == [op |-> "Test", src |-> src]
IJz(addr, src) == [op |-> "Jz", addr |-> addr, src |-> src]
IJmp(addr, src) == [op |-> "Jmp", addr |-> addr, src |-> src]
IForEveryPartPush(src) == [op |-> "ForEveryPartPush", src |-> src]
IForEveryPart(jz_pos, src) == [op |-> "ForEveryPart", jz_pos |-> jz_pos, src |-> src]
IForEveryPartPop(n, src) == [op |-> "ForEveryPartPop", n |-> n, src |-> src]
IDiscard(src) == [op |-> "Discard", src |-> src]
IReturn(src) == [op |-> "Return", src |-> src]
\* Set of VariableType::Local(local); the value is the empty string and there
\* is no modifier unless the statement gives them.
ISet(local, src) ==
    [op |-> "Set", local |-> local, value |-> <<>>, modifiers |-> <<>>, src |-> src]
\* Set of VariableType::Global(name).
ISetGlobal(name, src) ==
    [op |-> "Set", global |-> name, value |-> <<>>, modifiers |-> <<>>, src |-> src]
\* Set of VariableType::Envelope(envelope).
ISetEnvelope(envelope, src) ==
    [op |-> "Set", envelope |-> envelope, value |-> <<>>, modifiers |-> <<>>, src |-> src]
IInvalid(name, line_num, line_pos, src) ==
    [op |-> "Invalid", name |-> name, line_num |-> line_num, line_pos |-> line_pos,
     src |-> src]
IRequire(caps, src) == [op |-> "Require", caps |-> caps, src |-> src]
\* The instruction of the extension command w.
IExt(w, src) == [op |-> w, src |-> src]
IClear(match_vars, idx, num, src) ==
    [op |-> "Clear", match_vars |-> match_vars, local_vars_idx |-> idx,
     local_vars_num |-> num, src |-> src]

\* A Test whose match type is Matches(positions) or Regex(positions); the u64
\* mask positions is the set of its bits.
ITestMatches(positions, src) == [op |-> "Test", positions |-> positions, src |-> src]
\* Redirect to the address target, a string that is ${n} (match = {n}) or a
\* literal (match = {}).
IRedirect(match, target, src) ==
    [op |-> "Redirect", match |-> match, target |-> target, src |-> src]
IKeep(src) == [op |-> "Keep", src |-> src]
IFileInto(target, src) == [op |-> "FileInto", target |-> target, src |-> src]
IStop(src) == [op |-> "Stop", src |-> src]

\* ------------------------------------------------------------- parse_test
\* A test compiles to the Test instruction followed by the Jz that skips the
\* block when the test is false ("Test ...; Jz L_else").
parse_test(ins, src) == ins \o <<ITest(src), IJz(USIZE_MAX, src)>>

\* parse_test of a test with :matches or :regex: the address of the Test is
\* recorded in match_test_pos of the block the statement is in.
parse_test_matches(blk, ins, src) ==
    [instructions |-> ins \o <<ITestMatches({}, src), IJz(USIZE_MAX, src)>>,
     block |-> [blk EXCEPT !.match_test_pos = Append(@, Len(ins))]]

\* ------------------------------------------------------ match variables
\* The width of the u64 masks MatchType::Matches, MatchType::Regex and
\* match_test_vars.
MaskWidth == 64
\* "debug_assert!(num < 63)"
MaxMatchBit == 63
\* A max_match_variables above the width of the mask, which
\* set_max_match_variables accepts like any other usize.
WideMatchVariables == 65

\* "1 << num" on a u64 where overflow checks are off: the shift count wraps.
ShiftedBit(num) == num % MaskWidth

\* "for pos in &block.match_test_pos": bit num is set in every test of tests.
SetPositions(ins, tests, num) ==
    [a \in 1..Len(ins) |->
        IF \E k \in 1..Len(tests) : tests[k] = a - 1
        THEN [ins[a] EXCEPT !.positions = @ \cup {ShiftedBit(num)}]
        ELSE ins[a]]

\* "block.match_test_vars = *positions" in that loop: what the last test holds.
LastPositions(ins, tests) == ins[Last(tests) + 1].positions

\* A slip that looks for pending match tests in the current block only.
register_match_var_current_only(blk, stack, ins, num) ==
    IF blk.match_test_pos # <<>>
    THEN LET done == SetPositions(ins, blk.match_test_pos, num)
         IN  [ok |-> TRUE, instructions |-> done, block_stack |-> stack,
              block |-> [blk EXCEPT !.match_test_vars =
                                        LastPositions(done, blk.match_test_pos)]]
    ELSE [ok |-> FALSE, instructions |-> ins, block |-> blk, block_stack |-> stack]

\* CompilerState::register_match_var: [ok, instructions, block, block_stack]
\* afterwards, ok being the value returned.
register_match_var(blk, stack, ins, num) ==
    LET pending == {i \in 1..Len(stack) : stack[i].match_test_pos # <<>>}
    IN  IF blk.match_test_pos # <<>>
        THEN LET done == SetPositions(ins, blk.match_test_pos, num)
             IN  [ok |-> TRUE, instructions |-> done, block_stack |-> stack,
                  block |-> [blk EXCEPT !.match_test_vars =
                                            LastPositions(done, blk.match_test_pos)]]
        ELSE IF pending # {}
        THEN LET i == CHOOSE i \in pending : \A j \in pending : j <= i
                 done == SetPositions(ins, stack[i].match_test_pos, num)
             IN  [ok |-> TRUE, instructions |-> done, block |-> blk,
                  block_stack |-> [stack EXCEPT ![i].match_test_vars =
                                       LastPositions(done, stack[i].match_test_pos)]]
        ELSE [ok |-> FALSE, instructions |-> ins, block |-> blk, block_stack |-> stack]

\* ------------------------------------------------------ local variables
\* str::to_ascii_lowercase on the names of VarNames.
to_ascii_lowercase(name) ==
    CASE name = "X" -> "x"
      [] OTHER -> name

\* CompilerState::is_var_global
is_var_global(globals, name) == to_ascii_lowercase(name) \in globals

\* CompilerState::get_local_var: the index of name in the current block or the
\* nearest enclosing one, -1 for None.
get_local_var(blk, stack, name) ==
    LET chain == <<blk>> \o Reverse(stack)
        key == to_ascii_lowercase(name)
        hits == {i \in 1..Len(chain) : \E v \in chain[i].vars_local : v.name = key}
    IN  IF hits = {} THEN -1
        ELSE LET i == CHOOSE i \in hits : \A j \in hits : i <= j
             IN  (CHOOSE v \in chain[i].vars_local : v.name = key).id

\* A slip that allocates an index without looking the name up first.
register_local_var_no_lookup(blk, stack, num, name) ==
    [id |-> num,
     block |-> [blk EXCEPT !.vars_local =
                   {v \in @ : v.name # name} \cup {[name |-> name, id |-> num]}],
     vars_num |-> num + 1]

\* CompilerState::register_local_var: [id, block, vars_num] afterwards.
register_local_var(blk, stack, num, name) ==
    LET found == get_local_var(blk, stack, name)
    IN  IF found # -1
        THEN [id |-> found, block |-> blk, vars_num |-> num]
        ELSE [id |-> num,
              block |-> [blk EXCEPT !.vars_local =
                            {v \in @ : v.name # name} \cup {[name |-> name, id |-> num]}],
              vars_num |-> num + 1]

\* A slip that emits the Clear and leaves vars_num as it was.
block_end_keeps_vars_num(blk, ins, num, num_max, src) ==
    LET vars_num_block == Cardinality(blk.vars_local)
    IN  IF vars_num_block > 0
        THEN [instructions |->
                  Append(ins, IClear(blk.match_test_vars, num - vars_num_block,
                                     vars_num_block, src)),
              vars_num |-> num,
              vars_num_max |-> Max(num, num_max)]
        ELSE IF blk.match_test_vars # {}
        THEN [instructions |-> Append(ins, IClear(blk.match_test_vars, 0, 0, src)),
              vars_num |-> num, vars_num_max |-> num_max]
        ELSE [instructions |-> ins, vars_num |-> num, vars_num_max |-> num_max]

\* CompilerState::block_end: [instructions, vars_num, vars_num_max] afterwards.
block_end(blk, ins, num, num_max, src) ==
    LET vars_num_block == Cardinality(blk.vars_local)
    IN  IF vars_num_block > 0
        THEN [instructions |->
                  Append(ins, IClear(blk.match_test_vars, num - vars_num_block,
                                     vars_num_block, src)),
              vars_num |-> num - vars_num_block,
              vars_num_max |-> Max(num, num_max)]
        ELSE IF blk.match_test_vars # {}
        THEN [instructions |-> Append(ins, IClear(blk.match_test_vars, 0, 0, src)),
              vars_num |-> num, vars_num_max |-> num_max]
        ELSE [instructions |-> ins, vars_num |-> num, vars_num_max |-> num_max]

\* ------------------------------------------------------------ backpatching
\* "if let Instruction::Jmp(jmp_pos) = &mut instructions[pos] { *jmp_pos = cur_pos }"
SetJmp(ins, pos, cur_pos) ==
    IF pos + 1 \in 1..Len(ins) /\ ins[pos + 1].op = "Jmp"
    THEN [ins EXCEPT ![pos + 1].addr = cur_pos]
    ELSE ins

\* A slip that backpatches only the first pending jump.
PatchJmps_first_only(ins, jmps, cur_pos) ==
    IF jmps = <<>> THEN ins ELSE SetJmp(ins, jmps[1], cur_pos)

\* "for pos in jmps { ... *jmp_pos = cur_pos ... }"
RECURSIVE PatchJmps(_, _, _)
PatchJmps(ins, jmps, cur_pos) ==
    IF jmps = <<>> THEN ins
    ELSE PatchJmps(SetJmp(ins, jmps[1], cur_pos), Tail(jmps), cur_pos)

\* "if let Instruction::Jz(jmp_pos) = &mut instructions[last_block_start]"
SetJz(ins, pos, cur_pos) ==
    IF pos + 1 \in 1..Len(ins) /\ ins[pos + 1].op = "Jz"
    THEN [ins EXCEPT ![pos + 1].addr = cur_pos]
    ELSE ins

\* "if let Instruction::ForEveryPart(fep) = ... { fep.jz_pos = cur_pos }"
SetJzPos(ins, pos, cur_pos) ==
    IF pos + 1 \in 1..Len(ins) /\ ins[pos + 1].op = "ForEveryPart"
    THEN [ins EXCEPT ![pos + 1].jz_pos = cur_pos]
    ELSE ins

\* "let cur_pos = state.instructions.len();"
CurPos_past_end(ins) == Len(ins) + 1
CurPos(ins) == Len(ins)

\* A slip that loops back to the ForEveryPartPush before the loop head.
LoopJmpTarget_push(prev_block) == prev_block.last_block_start - 1
\* The target of the Jmp that closes a foreverypart block.
LoopJmpTarget(prev_block) == prev_block.last_block_start

\* CurlyClose, Word::ForEveryPart arm.
CloseForEveryPart(ins, prev_block, blk, src) ==
    LET ins1 == Append(ins, IJmp(LoopJmpTarget(prev_block), src))
        cur_pos == CurPos(ins1)
        ins2 == SetJzPos(ins1, prev_block.last_block_start, cur_pos)
    IN  [instructions |-> PatchJmps(ins2, blk.break_jmps, cur_pos),
         prev_block |-> prev_block,
         last_block_type |-> "Not"]

\* A slip that takes cur_pos before the Jmp over the following branches is
\* pushed, so that a false test lands on that Jmp.
CloseIf_jz_before_jmp(ins, prev_block, blk, next_is_block, src) ==
    LET prev1 == IF next_is_block
                 THEN [prev_block EXCEPT !.if_jmps = Append(@, Len(ins))]
                 ELSE prev_block
        cur_pos == CurPos(ins)
        ins1 == IF next_is_block THEN Append(ins, IJmp(USIZE_MAX, src)) ELSE ins
        ins2 == SetJz(ins1, prev1.last_block_start, cur_pos)
    IN  IF ~next_is_block
        THEN [instructions |-> PatchJmps(ins2, prev1.if_jmps, cur_pos),
              prev_block |-> [prev1 EXCEPT !.if_jmps = <<>>],
              last_block_type |-> "Not"]
        ELSE [instructions |-> ins2,
              prev_block |-> prev1,
              last_block_type |-> blk.btype]

\* CurlyClose, Word::If | Word::ElsIf arm; next_is_block is what peek saw.
CloseIf(ins, prev_block, blk, next_is_block, src) ==
    LET prev1 == IF next_is_block
                 THEN [prev_block EXCEPT !.if_jmps = Append(@, Len(ins))]
                 ELSE prev_block
        ins1 == IF next_is_block THEN Append(ins, IJmp(USIZE_MAX, src)) ELSE ins
        cur_pos == CurPos(ins1)
        ins2 == SetJz(ins1, prev1.last_block_start, cur_pos)
    IN  IF ~next_is_block
        THEN [instructions |-> PatchJmps(ins2, prev1.if_jmps, cur_pos),
              prev_block |-> [prev1 EXCEPT !.if_jmps = <<>>],
              last_block_type |-> "Not"]
        ELSE [instructions |-> ins2,
              prev_block |-> prev1,
              last_block_type |-> blk.btype]

\* CurlyClose, Word::Else arm.
CloseElse(ins, prev_block, blk, src) ==
    LET cur_pos == CurPos(ins)
    IN  [instructions |-> PatchJmps(ins, prev_block.if_jmps, cur_pos),
         prev_block |-> [prev_block EXCEPT !.if_jmps = <<>>],
         last_block_type |-> "Else"]

\* ------------------------------------------------------------ break, return
\* The blocks from the current one outwards:
\* [&mut state.block].into_iter().chain(state.block_stack.iter_mut().rev()).
BlockChain(blk, stack) == <<blk>> \o Reverse(stack)

\* Number of foreverypart blocks among the first i blocks of chain.
NumLoops(chain, i) == Cardinality({j \in 1..i : chain[j].btype = "ForEveryPart"})

\* A slip that falls back to the innermost loop when no loop has the label.
FindLabelled_any_loop(chain, label) ==
    LET hits == {i \in 1..Len(chain) :
                    chain[i].btype = "ForEveryPart" /\ label \in chain[i].label}
        loops == {i \in 1..Len(chain) : chain[i].btype = "ForEveryPart"}
    IN  IF hits # {} THEN CHOOSE i \in hits : \A j \in hits : i <= j
        ELSE IF loops # {} THEN CHOOSE i \in loops : \A j \in loops : i <= j
        ELSE 0

\* break :name label: the position in the chain of the nearest foreverypart
\* labelled label (0 when there is none).
FindLabelled(chain, label) ==
    LET hits == {i \in 1..Len(chain) :
                    chain[i].btype = "ForEveryPart" /\ label \in chain[i].label}
    IN  IF hits = {} THEN 0 ELSE CHOOSE i \in hits : \A j \in hits : i <= j

\* A slip that scans the block stack from the bottom: the outermost loop.
FindInnermost_outermost(chain) ==
    LET hits == {i \in 1..Len(chain) : chain[i].btype = "ForEveryPart"}
    IN  IF hits = {} THEN 0 ELSE CHOOSE i \in hits : \A j \in hits : i >= j

\* break: the position in the chain of the innermost foreverypart (0: none).
FindInnermost(chain) ==
    LET hits == {i \in 1..Len(chain) : chain[i].btype = "ForEveryPart"}
    IN  IF hits = {} THEN 0 ELSE CHOOSE i \in hits : \A j \in hits : i <= j

\* A slip that counts every block crossed, if / elsif / else included.
BreakNumPops_every_block(chain, idx) == idx

\* num_pops of break :name, counted while scanning up to the labelled loop.
BreakNumPops(chain, idx) == NumLoops(chain, idx)

\* A slip that counts the loops on the block stack and misses the current block.
ReturnNumPops_stack_only(blk, stack) ==
    Cardinality({j \in 1..Len(stack) : stack[j].btype = "ForEveryPart"})

\* return: the foreverypart blocks among the current block and the stack.
ReturnNumPops(blk, stack) ==
    LET chain == BlockChain(blk, stack) IN NumLoops(chain, Len(chain))

\* block.break_jmps.push(pos) on the block at position idx of the chain.
PushBreakJmp(blk, stack, idx, pos) ==
    IF idx = 1
    THEN [block |-> [blk EXCEPT !.break_jmps = Append(@, pos)], stack |-> stack]
    ELSE [block |-> blk,
          stack |-> [stack EXCEPT ![Len(stack) + 2 - idx].break_jmps = Append(@, pos)]]

\* --------------------------------------------------------------- capability
\* validate_argument(0, capability, ..): the capability is in scope in the
\* current block or an enclosing one, or capability checking is disabled.
has_capability(blk, stack, cap) ==
    \/ compiler.no_capability_check
    \/ \E i \in 1..Len(BlockChain(blk, stack)) : cap \in BlockChain(blk, stack)[i].capabilities

\* A slip in the global arm that checks include and forgets variables.
RequiredCapability_global_include_only(w) ==
    CASE w = "fileinto" -> {"fileinto"}
      [] w \in {"foreverypart", "break"} -> {"foreverypart"}
      [] w \in {"replace", "enclose", "extracttext", "convert", "reject", "ereject",
                "vacation", "execute"} -> {w}
      [] w \in {"addheader", "deleteheader"} -> {"editheader"}
      [] w = "set" -> {"variables"}
      [] w = "notify" -> {"enotify"}
      [] w = "error" -> {"ihave"}
      [] w \in {"setflag", "addflag", "removeflag"} -> {"imap4flags"}
      [] w \in {"include", "return", "global"} -> {"include"}
      [] OTHER -> {}

\* The capabilities that the arm of command word w passes to
\* validate_argument before it parses or emits anything.
RequiredCapability(w) ==
    CASE w = "fileinto" -> {"fileinto"}
      [] w \in {"foreverypart", "break"} -> {"foreverypart"}
      [] w \in {"replace", "enclose", "extracttext", "convert", "reject", "ereject",
                "vacation", "execute"} -> {w}
      [] w \in {"addheader", "deleteheader"} -> {"editheader"}
      [] w = "set" -> {"variables"}
      [] w = "notify" -> {"enotify"}
      [] w = "error" -> {"ihave"}
      [] w \in {"setflag", "addflag", "removeflag"} -> {"imap4flags"}
      [] w \in {"include", "return"} -> {"include"}
      [] w = "global" -> {"include", "variables"}
      [] OTHER -> {}

\* Every validate_argument call of the arm of w passes.
validate_argument(blk, stack, w) ==
    \A cap \in RequiredCapability(w) : has_capability(blk, stack, cap)

\* ------------------------------------------------- run time: set_variable
\* Strings are sequences of characters; "sz" stands for the two-byte
\* character U+00DF and "eur" for the three-byte character U+20AC, every other
\* character is one byte of ASCII ("bs" is the backslash).
len_utf8(ch) ==
    CASE ch = "sz" -> 2
      [] ch = "eur" -> 3
      [] OTHER -> 1

\* str::len: the bytes of a string.
RECURSIVE ByteLen(_)
ByteLen(str) == IF str = <<>> THEN 0 ELSE len_utf8(str[1]) + ByteLen(Tail(str))

\* char::to_uppercase, which may yield more than one character.
to_uppercase(ch) ==
    CASE ch = "a" -> <<"A">>
      [] ch = "sz" -> <<"S", "S">>
      [] OTHER -> <<ch>>

\* Modifier::Upper: str::to_uppercase
RECURSIVE Upper(_)
Upper(input) == IF input = <<>> THEN <<>> ELSE to_uppercase(input[1]) \o Upper(Tail(input))

\* Modifier::QuoteWildcard: the loop over the characters of input, result
\* being what was pushed so far.
RECURSIVE QuoteWildcard(_, _, _)
QuoteWildcard(input, result, max_len) ==
    IF input = <<>> THEN result
    ELSE IF input[1] \in {"*", "bs", "?"}
    THEN IF ByteLen(result) + len_utf8(input[1]) < max_len
         THEN QuoteWildcard(Tail(input), result \o <<"bs", input[1]>>, max_len)
         ELSE result
    ELSE IF ByteLen(result) + len_utf8(input[1]) <= max_len
    THEN QuoteWildcard(Tail(input), Append(result, input[1]), max_len)
    ELSE result

\* The characters that Modifier::QuoteRegex escapes.
RegexSpecials ==
    {"*", "bs", "?", ".", "[", "]", "(", ")", "+", "{", "}", "|", "^", "=", ":", "$"}

\* A slip that lets the escape pair in when only its backslash fits.
RECURSIVE QuoteRegex_le(_, _, _)
QuoteRegex_le(input, result, max_len) ==
    IF input = <<>> THEN result
    ELSE IF input[1] \in RegexSpecials
    THEN IF ByteLen(result) + len_utf8(input[1]) <= max_len
         THEN QuoteRegex_le(Tail(input), result \o <<"bs", input[1]>>, max_len)
         ELSE result
    ELSE IF ByteLen(result) + len_utf8(input[1]) <= max_len
    THEN QuoteRegex_le(Tail(input), Append(result, input[1]), max_len)
    ELSE result

\* Modifier::QuoteRegex: the loop over the characters of input.
RECURSIVE QuoteRegex(_, _, _)
QuoteRegex(input, result, max_len) ==
    IF input = <<>> THEN result
    ELSE IF input[1] \in RegexSpecials
    THEN IF ByteLen(result) + len_utf8(input[1]) < max_len
         THEN QuoteRegex(Tail(input), result \o <<"bs", input[1]>>, max_len)
         ELSE result
    ELSE IF ByteLen(result) + len_utf8(input[1]) <= max_len
    THEN QuoteRegex(Tail(input), Append(result, input[1]), max_len)
    ELSE result

\* char::is_ascii_alphanumeric, on the characters used here.
is_ascii_alphanumeric(ch) == ch \in {"a", "A", "S", "z", "0", "9"}

\* char::encode_utf8 followed by "%{byte:02x}" for each byte: the two hex
\* digits of every byte of the character.
encode_utf8(ch) ==
    CASE ch = " " -> <<<<"2", "0">>>>
      [] ch = "*" -> <<<<"2", "a">>>>
      [] ch = "?" -> <<<<"3", "f">>>>
      [] ch = "bs" -> <<<<"5", "c">>>>
      [] ch = "sz" -> <<<<"c", "3">>, <<"9", "f">>>>
      [] ch = "eur" -> <<<<"e", "2">>, <<"8", "2">>, <<"a", "c">>>>
      [] ch = "%" -> <<<<"2", "5">>>>

\* "for byte in char.encode_utf8(&mut buf).as_bytes() { write!(result, "%{byte:02x}") }"
RECURSIVE WriteBytes(_, _)
WriteBytes(result, bytes) ==
    IF bytes = <<>> THEN result
    ELSE WriteBytes(result \o <<"%", bytes[1][1], bytes[1][2]>>, Tail(bytes))

\* Modifier::EncodeUrl: the loop over the characters of input.
RECURSIVE EncodeUrl(_, _, _)
EncodeUrl(input, result, max_len) ==
    IF input = <<>> THEN result
    ELSE IF is_ascii_alphanumeric(input[1]) \/ input[1] \in {"-", ".", "_", "~"}
    THEN IF ByteLen(result) < max_len
         THEN EncodeUrl(Tail(input), Append(result, input[1]), max_len)
         ELSE result
    ELSE IF ByteLen(result) + len_utf8(input[1]) * 3 <= max_len
    THEN EncodeUrl(Tail(input), WriteBytes(result, encode_utf8(input[1])), max_len)
    ELSE result

\* Modifier::apply
apply(modifier, input, max_len) ==
    CASE modifier = "Upper" -> Upper(input)
      [] modifier = "QuoteWildcard" -> QuoteWildcard(input, <<>>, max_len)
      [] modifier = "QuoteRegex" -> QuoteRegex(input, <<>>, max_len)
      [] modifier = "EncodeUrl" -> EncodeUrl(input, <<>>, max_len)
      [] OTHER -> input

\* "for modifier in &self.modifiers { value = modifier.apply(..) }"
RECURSIVE ApplyAll(_, _, _)
ApplyAll(modifiers, value, max_len) ==
    IF modifiers = <<>> THEN value
    ELSE ApplyAll(Tail(modifiers), apply(modifiers[1], value, max_len), max_len)

\* A slip that cuts at max_variable_size characters instead of bytes.
RECURSIVE Truncated_by_chars(_, _, _)
Truncated_by_chars(chars, new_variable, max) ==
    IF chars = <<>> THEN new_variable
    ELSE IF 1 + Len(new_variable) <= max
    THEN Truncated_by_chars(Tail(chars), Append(new_variable, chars[1]), max)
    ELSE new_variable

\* Context::set_variable, the loop "for ch in variable.to_string().chars()"
\* with its break.
RECURSIVE Truncated(_, _, _)
Truncated(chars, new_variable, max) ==
    IF chars = <<>> THEN new_variable
    ELSE IF len_utf8(chars[1]) + ByteLen(new_variable) <= max
    THEN Truncated(Tail(chars), Append(new_variable, chars[1]), max)
    ELSE new_variable

\* Event::SetEnvelope
SetEnvelopeEvent(envelope, value) ==
    [event |-> "SetEnvelope", envelope |-> envelope, value |-> value]

\* A slip that pushes a new entry whether or not the part has one.
add_set_envelope_event_always_push(c, envelope, value) ==
    [c EXCEPT
       !.envelope = Append(c.envelope, [name |-> envelope, value |-> value]),
       !.queued_events = <<SetEnvelopeEvent(envelope, value)>>]

\* Context::add_set_envelope_event
add_set_envelope_event(c, envelope, value) ==
    LET found == {i \in 1..Len(c.envelope) : c.envelope[i].name = envelope}
        first == CHOOSE i \in found : \A j \in found : i <= j
    IN  [c EXCEPT
           !.envelope = IF found # {}
                        THEN [c.envelope EXCEPT ![first].value = value]
                        ELSE Append(c.envelope, [name |-> envelope, value |-> value]),
           !.queued_events = <<SetEnvelopeEvent(envelope, value)>>]

\* Context::get_variable: Some(value) as {value}, None as {}.  The envelope
\* arm finds the first entry of the part.
get_variable(c, var_name) ==
    IF "local" \in DOMAIN var_name
    THEN IF var_name.local + 1 \in DOMAIN c.vars_local
         THEN {c.vars_local[var_name.local + 1]} ELSE {}
    ELSE IF "global" \in DOMAIN var_name
    THEN {g.value : g \in {h \in c.vars_global : h.name = var_name.global}}
    ELSE LET found == {i \in 1..Len(c.envelope) : c.envelope[i].name = var_name.envelope}
         IN  IF found = {} THEN {}
             ELSE {c.envelope[CHOOSE i \in found : \A j \in found : i <= j].value}

\* Context::set_variable: the Context afterwards.  var_name is the Set
\* instruction, whose target is Local, Global or Envelope.
set_variable(c, var_name, variable) ==
    LET max == c.max_variable_size
        stored == IF ByteLen(variable) > max THEN Truncated(variable, <<>>, max)
                  ELSE variable
    IN  IF "local" \in DOMAIN var_name
        THEN IF var_name.local + 1 \in DOMAIN c.vars_local
             THEN [c EXCEPT !.vars_local[var_name.local + 1] = stored]
             ELSE c
        ELSE IF "global" \in DOMAIN var_name
        THEN [c EXCEPT !.vars_global =
                 {g \in @ : g.name # var_name.global}
                 \cup {[name |-> var_name.global, value |-> stored]}]
        ELSE add_set_envelope_event(c, var_name.envelope, stored)

\* Set::exec
SetExec(c, set) ==
    set_variable(c, set, ApplyAll(set.modifiers, set.value, c.max_variable_size))

\* Context::new for a program with num_vars local variables; delivered is
\* the history of the events yielded to the host.
NewContext(num_vars) ==
    [max_variable_size |-> MaxRuntimeVariableSize,
     vars_local |-> [i \in 1..num_vars |-> <<>>],
     vars_global |-> {},
     envelope |-> <<>>,
     queued_events |-> <<>>,
     actions |-> <<>>,
     delivered |-> <<>>]

\* ------------------------------------------------------------------- Init
\* Compiler::new: max_script_size
DefaultMaxScriptSize == 1024 * 1024

DefaultCompiler ==
    [max_script_size |-> DefaultMaxScriptSize,
     max_nested_blocks |-> MaxNestedBlocks,
     max_nested_foreverypart |-> MaxNestedForEveryPart,
     max_includes |-> MaxIncludes,
     max_local_variables |-> MaxLocalVariables,
     max_match_variables |-> MaxMatchVariables + 1,
     max_variable_size |-> MaxVariableSize,
     no_capability_check |-> TRUE]

InitStateAt(b, c, ph) ==
    /\ budget = b
    /\ compiler = c
    /\ script = <<>>
    /\ peek = "none"
    /\ instructions = <<>>
    /\ block_stack = <<>>
    /\ block = NewBlock("Not")
    /\ last_block_type = "Not"
    /\ vars_global = {}
    /\ vars_num = 0
    /\ vars_num_max = 0
    /\ vars_match_max = 0
    /\ includes_num = 0
    /\ phase = ph
    /\ error = NoError
    /\ sieve = NoSieve
    /\ pc = 0
    /\ test_result = FALSE
    /\ part_stack = <<>>
    /\ ctx = NewContext(0)
    /\ outcome = <<>>
    /\ last = -1

\* The state in which the token loop of compile starts.
InitState(b, c) == InitStateAt(b, c, "compile")

Init == InitState([stmts |-> MaxStmts, size |-> DefaultMaxScriptSize,
               match_vars |-> 1..MaxMatchVariables, labels |-> Labels,
               names |-> VarNames, values |-> {<<>>},
               modifiers |-> {<<>>},
               replay |-> <<>>, first |-> NoResult], DefaultCompiler)

\* ------------------------------------------------------- compile: plumbing
\* The script given to a second compilation is the one the first has read:
\* stmt is the statement that the tokens give next.
Replays(stmt) ==
    \/ budget.replay = <<>>
    \/ /\ Len(script) < Len(budget.replay)
       /\ budget.replay[Len(script) + 1] = stmt

\* The statement was compiled: the state after it.
Commit(stmt, ins, stack, blk, lbt, pk) ==
    /\ Replays(stmt)
    /\ script' = Append(script, stmt)
    /\ instructions' = ins
    /\ block_stack' = stack
    /\ block' = blk
    /\ last_block_type' = lbt
    /\ peek' = pk

\* compile returns Err: the CompilerState is dropped (kept here as it was).
Fail(stmt, error_type, line_num, line_pos) ==
    /\ Replays(stmt)
    /\ script' = Append(script, stmt)
    /\ phase' = "err"
    /\ error' = [error_type |-> error_type, line_num |-> line_num, line_pos |-> line_pos]
    /\ UNCHANGED <<budget, compiler, peek, instructions, block_stack, block, last_block_type,
                   vars_global, vars_num, vars_num_max, vars_match_max, includes_num,
                   sieve, rvars>>

\* A slip that lets one block more be opened than max_nested_blocks.
OpenBlock_one_more(stmt, ins, blk, new_block, col) ==
    IF Len(block_stack) <= compiler.max_nested_blocks
    THEN /\ Commit(stmt, ins,
                   Append(block_stack, [blk EXCEPT !.last_block_start = Len(ins) - 1]),
                   [new_block EXCEPT !.line_num = Line, !.line_pos = col],
                   last_block_type, "none")
         /\ UNCHANGED <<budget, compiler, vars_global, vars_num, vars_num_max, vars_match_max,
                        includes_num, phase, error, sieve, rvars>>
    ELSE Fail(stmt, "TooManyNestedBlocks", blk.line_num, blk.line_pos)

\* A slip that keeps count of the open blocks in the Compiler itself.
OpenBlock_counts_in_compiler(stmt, ins, blk, new_block, col) ==
    IF Len(block_stack) < compiler.max_nested_blocks
    THEN /\ Commit(stmt, ins,
                   Append(block_stack, [blk EXCEPT !.last_block_start = Len(ins) - 1]),
                   [new_block EXCEPT !.line_num = Line, !.line_pos = col],
                   last_block_type, "none")
         /\ compiler' = [compiler EXCEPT !.max_nested_blocks = @ - 1]
         /\ UNCHANGED <<budget, vars_global, vars_num, vars_num_max, vars_match_max,
                        includes_num, phase, error, sieve, rvars>>
    ELSE Fail(stmt, "TooManyNestedBlocks", blk.line_num, blk.line_pos)

\* A slip that takes instructions.len() for the start of the block.
OpenBlock_start_at_len(stmt, ins, blk, new_block, col) ==
    IF Len(block_stack) < compiler.max_nested_blocks
    THEN /\ Commit(stmt, ins,
                   Append(block_stack, [blk EXCEPT !.last_block_start = Len(ins)]),
                   [new_block EXCEPT !.line_num = Line, !.line_pos = col],
                   last_block_type, "none")
         /\ UNCHANGED <<budget, compiler, vars_global, vars_num, vars_num_max, vars_match_max,
                        includes_num, phase, error, sieve, rvars>>
    ELSE Fail(stmt, "TooManyNestedBlocks", blk.line_num, blk.line_pos)

\* "if let Some(mut new_block) = is_new_block": the block is opened after the
\* instructions ins of the statement, col tokens into the line.
OpenBlock(stmt, ins, blk, new_block, col) ==
    IF Len(block_stack) < compiler.max_nested_blocks
    THEN /\ Commit(stmt, ins,
                   Append(block_stack, [blk EXCEPT !.last_block_start = Len(ins) - 1]),
                   [new_block EXCEPT !.line_num = Line, !.line_pos = col],
                   last_block_type, "none")
         /\ UNCHANGED <<budget, compiler, vars_global, vars_num, vars_num_max, vars_match_max,
                        includes_num, phase, error, sieve, rvars>>
    ELSE Fail(stmt, "TooManyNestedBlocks", blk.line_num, blk.line_pos)


\* Everything a statement that opens no block leaves alone.
SimpleFrame ==
    UNCHANGED <<budget, compiler, vars_global, vars_match_max, includes_num, phase, error,
                sieve, rvars>>

\* ------------------------------------------------------ compile: statements
\* A slip that rejects a script of exactly max_script_size bytes as well.
CompileBegin_at_limit ==
    /\ phase = "new"
    /\ IF budget.size >= compiler.max_script_size
       THEN /\ phase' = "err"
            /\ error' = [error_type |-> "ScriptTooLong", line_num |-> 0, line_pos |-> 0]
       ELSE /\ phase' = "compile"
            /\ error' = error
    /\ UNCHANGED <<budget, compiler, script, peek, instructions, block_stack, block,
                   last_block_type, vars_global, vars_num, vars_num_max, vars_match_max,
                   includes_num, sieve, rvars>>

\* Compiler::compile up to its token loop: "if script.len() > self.max_script_size".
CompileBegin ==
    /\ phase = "new"
    /\ IF budget.size > compiler.max_script_size
       THEN /\ phase' = "err"
            /\ error' = [error_type |-> "ScriptTooLong", line_num |-> 0, line_pos |-> 0]
       ELSE /\ phase' = "compile"
            /\ error' = error
    /\ UNCHANGED <<budget, compiler, script, peek, instructions, block_stack, block,
                   last_block_type, vars_global, vars_num, vars_num_max, vars_match_max,
                   includes_num, sieve, rvars>>

\* Word::If
CompileIf ==
    /\ CanReadStmt("if")
    /\ OpenBlock(Stmt("if", {}, ""), parse_test(instructions, Line),
                 [block EXCEPT !.if_jmps = <<>>], NewBlock("If"), 2)

\* Word::If with a test whose match type is :matches or :regex
CompileIfMatches ==
    /\ CanReadStmt("if")
    /\ LET t == parse_test_matches(block, instructions, Line)
       IN  OpenBlock(Stmt("if", {}, ":matches"), t.instructions,
                     [t.block EXCEPT !.if_jmps = <<>>], NewBlock("If"), 2)

\* Regular expressions a test may be given; "(b" is one that does not compile.
Exprs == {"a+", "b*", "(b"}

\* fancy_regex::Regex::new(expr) returns Ok.
ValidExpr(expr) == expr # "(b"

\* "Regex { regex, expr }": the program that fancy_regex::Regex::new(expr)
\* builds is an object of its own, by names the call that built it.
RegexNew(expr, by) == [expr |-> expr, regex |-> [program |-> expr, built |-> by]]

\* Word::If with a :regex test on the expression expr: the Test holds
\* Value::Regex, and an expression that does not compile is InvalidRegex.
CompileIfRegex ==
    /\ CanReadStmt("if")
    /\ \E expr \in Exprs :
         LET stmt == [Stmt("if", {}, ":regex") EXCEPT !.value = <<expr>>]
             t == parse_test_matches(block, instructions, Line)
             ins == [t.instructions EXCEPT ![Len(instructions) + 1] =
                        [op |-> "Test", positions |-> {}, regex |-> RegexNew(expr, "compile"),
                         src |-> Line]]
         IN  IF ~ValidExpr(expr)
             THEN Fail(stmt, "InvalidRegex", Line, 1)
             ELSE OpenBlock(stmt, ins, [t.block EXCEPT !.if_jmps = <<>>], NewBlock("If"), 2)

\* The text of the reference to match variable n.
MatchVarName(n) ==
    CASE n = 1 -> "${1}"
      [] n = 2 -> "${2}"
      [] n = 3 -> "${3}"
      [] n = 62 -> "${62}"
      [] n = 63 -> "${63}"
      [] n = 64 -> "${64}"
      [] n = 65 -> "${65}"
      [] OTHER -> "${4}"

\* Word::Redirect with the address "${n}": n is refused when it is not below
\* max_match_variables; otherwise the string is compiled into
\* Variable(Match(n)) when register_match_var(n) returns true, and
\* vars_match_max is raised to n + 1, or it stays a literal.  Where debug
\* assertions are compiled in, register_match_var panics on a pending test
\* and n >= 63.
CompileRedirect ==
    /\ CanReadStmt("redirect")
    /\ \E n \in budget.match_vars :
         LET r == register_match_var(block, block_stack, instructions, n)
             stmt == Stmt("redirect", {}, MatchVarName(n))
         IN  IF ~(n < compiler.max_match_variables)
             THEN Fail(stmt, "InvalidMatchVariable", Line, 1)
             ELSE \/ /\ Commit(stmt,
                               Append(r.instructions,
                                      IRedirect(IF r.ok THEN {n} ELSE {},
                                                MatchVarName(n), Line)),
                               r.block_stack, r.block, last_block_type, "none")
                     /\ vars_match_max' = IF r.ok THEN Max(vars_match_max, n + 1)
                                          ELSE vars_match_max
                     /\ UNCHANGED <<budget, compiler, vars_global, vars_num, vars_num_max,
                                    includes_num, phase, error, sieve, rvars>>
                  \/ /\ r.ok
                     /\ ~(n < MaxMatchBit)
                     /\ Replays(stmt)
                     /\ script' = Append(script, stmt)
                     /\ phase' = "panic"
                     /\ UNCHANGED <<budget, compiler, peek, instructions, block_stack,
                                    block, last_block_type, vars_global, vars_num,
                                    vars_num_max, vars_match_max, includes_num, error,
                                    sieve, rvars>>

\* Word::ElsIf
CompileElsIf ==
    /\ CanReadStmt("elsif")
    /\ IF last_block_type \in {"If", "ElsIf"}
       THEN OpenBlock(Stmt("elsif", {}, ""), parse_test(instructions, Line),
                      block, NewBlock("ElsIf"), 2)
       ELSE Fail(Stmt("elsif", {}, ""), "UnexpectedToken", Line, 0)

\* Word::Else
CompileElse ==
    /\ CanReadStmt("else")
    /\ IF last_block_type \in {"If", "ElsIf"}
       THEN OpenBlock(Stmt("else", {}, ""), instructions, block, NewBlock("Else"), 1)
       ELSE Fail(Stmt("else", {}, ""), "UnexpectedToken", Line, 0)

\* Word::Discard
CompileDiscard ==
    /\ CanReadStmt("discard")
    /\ Commit(Stmt("discard", {}, ""), Append(instructions, IDiscard(Line)),
              block_stack, block, last_block_type, "none")
    /\ UNCHANGED <<vars_num, vars_num_max>>
    /\ SimpleFrame

\* The envelope part that a variable name of the envelope namespace denotes,
\* "" for any other name.
EnvelopePart(name) ==
    CASE name = "envelope.from" -> "from"
      [] name = "envelope.to" -> "to"
      [] OTHER -> ""

\* Word::Set: the capability check, then parse_set, which emits Set of the
\* envelope part for a name of the envelope namespace, Set of the global when
\* the name was declared global, and otherwise registers the name as a local
\* and emits Set of its index.  The instruction carries the value and the
\* modifiers of the statement.
CompileSet ==
    /\ CanReadStmt("set")
    /\ \E name \in budget.names, value \in budget.values, mods \in budget.modifiers :
         LET stmt == [Stmt("set", {}, name) EXCEPT !.value = value, !.modifiers = mods]
         IN  IF ~validate_argument(block, block_stack, "set")
             THEN Fail(stmt, "UndeclaredCapability", Line, 0)
             ELSE IF EnvelopePart(name) # ""
             THEN /\ Commit(stmt,
                            Append(instructions,
                                   [ISetEnvelope(EnvelopePart(name), Line)
                                       EXCEPT !.value = value, !.modifiers = mods]),
                            block_stack, block, last_block_type, "none")
                  /\ UNCHANGED <<vars_num, vars_num_max>>
                  /\ SimpleFrame
             ELSE IF is_var_global(vars_global, name)
             THEN /\ Commit(stmt,
                            Append(instructions,
                                   [ISetGlobal(to_ascii_lowercase(name), Line)
                                       EXCEPT !.value = value, !.modifiers = mods]),
                            block_stack, block, last_block_type, "none")
                  /\ UNCHANGED <<vars_num, vars_num_max>>
                  /\ SimpleFrame
             ELSE LET r == register_local_var(block, block_stack, vars_num, name)
                  IN  /\ Commit(stmt,
                                Append(instructions,
                                       [ISet(r.id, Line)
                                           EXCEPT !.value = value, !.modifiers = mods]),
                                block_stack, r.block, last_block_type, "none")
                      /\ vars_num' = r.vars_num
                      /\ UNCHANGED vars_num_max
                      /\ SimpleFrame

\* Word::Keep
CompileKeep ==
    /\ CanReadStmt("keep")
    /\ Commit(Stmt("keep", {}, ""), Append(instructions, IKeep(Line)),
              block_stack, block, last_block_type, "none")
    /\ UNCHANGED <<vars_num, vars_num_max>>
    /\ SimpleFrame

\* Word::Stop
CompileStop ==
    /\ CanReadStmt("stop")
    /\ Commit(Stmt("stop", {}, ""), Append(instructions, IStop(Line)),
              block_stack, block, last_block_type, "none")
    /\ UNCHANGED <<vars_num, vars_num_max>>
    /\ SimpleFrame

\* Word::FileInto with the mailbox as a literal string
CompileFileInto ==
    /\ CanReadStmt("fileinto")
    /\ \E mailbox \in Mailboxes :
         IF ~validate_argument(block, block_stack, "fileinto")
         THEN Fail(Stmt("fileinto", {}, mailbox), "UndeclaredCapability", Line, 0)
         ELSE /\ Commit(Stmt("fileinto", {}, mailbox),
                        Append(instructions, IFileInto(mailbox, Line)),
                        block_stack, block, last_block_type, "none")
              /\ UNCHANGED <<vars_num, vars_num_max>>
              /\ SimpleFrame

\* The foreverypart blocks already on the block stack.
NestedForEveryPart(stack) ==
    Cardinality({i \in 1..Len(stack) : stack[i].btype = "ForEveryPart"})

\* "for block in &state.block_stack { if block.label == Some(label) .. }"
LabelDefined(stack, label) ==
    \E i \in 1..Len(stack) : label \in stack[i].label

\* Word::ForEveryPart, with :name label when lab = {label}
CompileForEveryPart ==
    /\ CanReadStmt("foreverypart")
    /\ \E lab \in {{}} \cup {{l} : l \in budget.labels} :
         LET stmt == Stmt("foreverypart", lab, "")
             ins == instructions \o
                       <<IForEveryPartPush(Line), IForEveryPart(USIZE_MAX, Line)>>
         IN  IF ~validate_argument(block, block_stack, stmt.w)
             THEN Fail(stmt, "UndeclaredCapability", Line, 0)
             ELSE IF NestedForEveryPart(block_stack) = compiler.max_nested_foreverypart
             THEN Fail(stmt, "too many nested 'foreverypart' blocks", Line, 0)
             ELSE IF \E l \in lab : LabelDefined(block_stack, l)
             THEN Fail(stmt, "label already defined", Line, 1)
             ELSE OpenBlock(stmt, ins, block,
                            IF lab = {} THEN NewBlock("ForEveryPart")
                            ELSE WithLabel(NewBlock("ForEveryPart"), CHOOSE l \in lab : TRUE),
                            IF lab = {} THEN 1 ELSE 3)

\* Word::Break, with :name label when lab = {label}
CompileBreak ==
    /\ CanReadStmt("break")
    /\ \E lab \in {{}} \cup {{l} : l \in budget.labels} :
         LET stmt == Stmt("break", lab, "")
             chain == BlockChain(block, block_stack)
             idx == IF lab = {} THEN FindInnermost(chain)
                    ELSE FindLabelled(chain, CHOOSE l \in lab : TRUE)
             num_pops == IF lab = {} THEN 1 ELSE BreakNumPops(chain, idx)
             ins1 == Append(instructions, IForEveryPartPop(num_pops, Line))
             pushed == PushBreakJmp(block, block_stack, idx, Len(ins1))
         IN  IF ~validate_argument(block, block_stack, stmt.w)
             THEN Fail(stmt, "UndeclaredCapability", Line, 0)
             ELSE IF idx = 0
             THEN IF lab = {}
                  THEN Fail(stmt, "break used outside loop", Line, 0)
                  ELSE Fail(stmt, "label does not exist", Line, 1)
             ELSE /\ Commit(stmt, Append(ins1, IJmp(USIZE_MAX, Line)),
                            pushed.stack, pushed.block, last_block_type, "none")
                  /\ UNCHANGED <<vars_num, vars_num_max>>
                  /\ SimpleFrame

\* Word::Return
CompileReturn ==
    /\ CanReadStmt("return")
    /\ LET stmt == Stmt("return", {}, "")
           num_pops == ReturnNumPops(block, block_stack)
           ins1 == IF num_pops > 0
                   THEN Append(instructions, IForEveryPartPop(num_pops, Line))
                   ELSE instructions
       IN  IF ~validate_argument(block, block_stack, "return")
           THEN Fail(stmt, "UndeclaredCapability", Line, 0)
           ELSE /\ Commit(stmt, Append(ins1, IReturn(Line)),
                          block_stack, block, last_block_type, "none")
                /\ UNCHANGED <<vars_num, vars_num_max>>
                /\ SimpleFrame

\* Word::Require: parse_require unions the capabilities into the set of the
\* current block and emits Require.
CompileRequire ==
    /\ CanReadStmt("require")
    /\ \E cap \in Capabilities :
         /\ Commit(StmtRequire({cap}), Append(instructions, IRequire({cap}, Line)),
                   block_stack, [block EXCEPT !.capabilities = @ \cup {cap}],
                   last_block_type, "none")
         /\ UNCHANGED <<vars_num, vars_num_max>>
         /\ SimpleFrame

\* An extension command that is its capability check followed by its parser,
\* which emits the instruction of the command.
CompileExtension ==
    \E w \in ExtWords :
        /\ CanReadStmt(w)
        /\ IF ~validate_argument(block, block_stack, w)
           THEN Fail(Stmt(w, {}, ""), "UndeclaredCapability", Line, 0)
           ELSE /\ Commit(Stmt(w, {}, ""), Append(instructions, IExt(w, Line)),
                          block_stack, block, last_block_type, "none")
                /\ UNCHANGED <<vars_num, vars_num_max>>
                /\ SimpleFrame

\* A slip that compares includes_num with <= and so admits one include more.
CompileInclude_one_more ==
    /\ CanReadStmt("include")
    /\ LET stmt == Stmt("include", {}, "")
       IN  IF ~(includes_num <= compiler.max_includes)
           THEN Fail(stmt, "TooManyIncludes", Line, 0)
           ELSE IF ~validate_argument(block, block_stack, "include")
           THEN Fail(stmt, "UndeclaredCapability", Line, 0)
           ELSE /\ Commit(stmt, Append(instructions, IExt("include", Line)),
                          block_stack, block, last_block_type, "none")
                /\ includes_num' = includes_num + 1
                /\ UNCHANGED <<budget, compiler, vars_global, vars_num, vars_num_max,
                               vars_match_max, phase, error, sieve, rvars>>

\* Word::Include
CompileInclude ==
    /\ CanReadStmt("include")
    /\ LET stmt == Stmt("include", {}, "")
       IN  IF ~(includes_num < compiler.max_includes)
           THEN Fail(stmt, "TooManyIncludes", Line, 0)
           ELSE IF ~validate_argument(block, block_stack, "include")
           THEN Fail(stmt, "UndeclaredCapability", Line, 0)
           ELSE /\ Commit(stmt, Append(instructions, IExt("include", Line)),
                          block_stack, block, last_block_type, "none")
                /\ includes_num' = includes_num + 1
                /\ UNCHANGED <<budget, compiler, vars_global, vars_num, vars_num_max,
                               vars_match_max, phase, error, sieve, rvars>>

\* A slip that looks for the local in the current block only.
is_var_local_current_block(blk, stack, name) ==
    \E v \in blk.vars_local : v.name = to_ascii_lowercase(name)

\* CompilerState::is_var_local
is_var_local(blk, stack, name) ==
    \E i \in 1..Len(BlockChain(blk, stack)) :
        \E v \in BlockChain(blk, stack)[i].vars_local : v.name = to_ascii_lowercase(name)

\* CompilerState::register_global_var
register_global_var(globals, name) == globals \cup {to_ascii_lowercase(name)}

\* Word::Global, declaring one name
CompileGlobal ==
    /\ CanReadStmt("global")
    /\ \E name \in budget.names \cup GlobalNames :
         LET stmt == Stmt("global", {}, name)
         IN  IF ~validate_argument(block, block_stack, "global")
             THEN Fail(stmt, "UndeclaredCapability", Line, 0)
             ELSE IF is_var_local(block, block_stack, name)
             THEN Fail(stmt, "variable already defined as local", Line, 1)
             ELSE IF ~(Len(name) < compiler.max_variable_size)
             THEN Fail(stmt, "VariableTooLong", Line, 1)
             ELSE /\ Commit(stmt, instructions, block_stack, block, last_block_type,
                            "none")
                  /\ vars_global' = register_global_var(vars_global, name)
                  /\ UNCHANGED <<budget, compiler, vars_num, vars_num_max,
                                 vars_match_max, includes_num, phase, error, sieve, rvars>>

\* A slip that rejects the command word like any other unexpected token.
CompileInvalid_fails ==
    \E name \in InvalidWords :
        /\ CanReadStmt(name)
        /\ Fail(Stmt(name, {}, ""), "UnexpectedToken", Line, 0)

\* The default arm of the command words and Token::Invalid: ignore_instruction
\* consumes the statement up to its ';' or its matching '}', then Invalid is
\* pushed with the name and the position of the command token.
CompileInvalid ==
    \E name \in InvalidWords :
        /\ CanReadStmt(name)
        /\ Commit(Stmt(name, {}, ""), Append(instructions, IInvalid(name, Line, 0, Line)),
                  block_stack, block, last_block_type, "none")
        /\ UNCHANGED <<vars_num, vars_num_max>>
        /\ SimpleFrame

\* What peek can find after the '}' of a block of type btype: the close of
\* an if or elsif looks at the next token, the others do not.
PeekChoices(btype) ==
    IF btype \in {"If", "ElsIf"}
    THEN {"other"} \cup (IF NumStmts < budget.stmts THEN {"elsif", "else"} ELSE {})
    ELSE {"none"}

\* Token::CurlyClose if !state.block_stack.is_empty()
CompileCurlyClose ==
    /\ CanRead("}")
    /\ block_stack # <<>>
    /\ \E nxt \in PeekChoices(block.btype) :
         LET be == block_end(block, instructions, vars_num, vars_num_max, Line)
             prev_block == Last(block_stack)
             r == CASE block.btype = "ForEveryPart" ->
                         CloseForEveryPart(be.instructions, prev_block, block, Line)
                    [] block.btype \in {"If", "ElsIf"} ->
                         CloseIf(be.instructions, prev_block, block,
                                 nxt \in {"elsif", "else"}, Line)
                    [] block.btype = "Else" ->
                         CloseElse(be.instructions, prev_block, block, Line)
                    [] OTHER ->
                         [instructions |-> be.instructions, prev_block |-> prev_block,
                          last_block_type |-> last_block_type]
         IN  /\ Commit(Stmt("}", {}, ""), r.instructions, Front(block_stack),
                       r.prev_block, r.last_block_type, nxt)
             /\ vars_num' = be.vars_num
             /\ vars_num_max' = be.vars_num_max
             /\ SimpleFrame

\* "_ => return Err(token_info.expected("instruction"))": a token that starts
\* no statement, such as a '}' while no block is open or a stray ';'.
CompileUnexpectedToken ==
    /\ \E tok \in {"}", ";"} :
         /\ CanRead(tok)
         /\ tok = "}" => block_stack = <<>>
         /\ Fail(Stmt(tok, {}, ""), "UnexpectedToken", Line, 0)

\* A slip that reports the outermost block still open instead of the current one.
UnterminatedBlock_outermost(blk, stack) ==
    LET b == IF Len(stack) >= 2 THEN stack[2] ELSE blk
    IN  [error_type |-> "UnterminatedBlock", line_num |-> b.line_num,
         line_pos |-> b.line_pos]

\* The CompileError of a script that ends inside a block.
UnterminatedBlock(blk, stack) ==
    [error_type |-> "UnterminatedBlock", line_num |-> blk.line_num,
     line_pos |-> blk.line_pos]

\* The token stream ends: Ok(Sieve) or UnterminatedBlock.
CompileEOF ==
    /\ phase = "compile"
    /\ peek \in {"none", "other"}
    /\ Replays(Stmt("EOF", {}, ""))
    /\ script' = Append(script, Stmt("EOF", {}, ""))
    /\ IF block_stack = <<>>
       THEN /\ phase' = "ok"
            /\ sieve' = [instructions |-> instructions,
                         num_vars |-> Max(vars_num_max, vars_num),
                         num_match_vars |-> vars_match_max]
            /\ error' = error
       ELSE /\ phase' = "err"
            /\ error' = UnterminatedBlock(block, block_stack)
            /\ sieve' = sieve
    /\ UNCHANGED <<budget, compiler, peek, instructions, block_stack, block,
                   last_block_type, vars_global, vars_num, vars_num_max,
                   vars_match_max, includes_num, rvars>>

\* ------------------------------------------------------------ interpreter
\* The dispatch loop over the compiled program: fetch instructions[pc],
\* advance pc, execute.  Jz jumps when the preceding test was false.
Running == phase = "run" /\ pc < Len(sieve.instructions) /\ ctx.queued_events = <<>>
Cur == sieve.instructions[pc + 1]

\* Everything the interpreter leaves alone.
RunFrame ==
    UNCHANGED <<budget, compiler, script, peek, instructions, block_stack, block,
                last_block_type, vars_global, vars_num, vars_num_max, vars_match_max,
                includes_num, error, sieve>>

\* A run of the returned Sieve starts at address 0.
RunStart ==
    /\ phase = "ok"
    /\ phase' = "run"
    /\ pc' = 0
    /\ test_result' = FALSE
    /\ part_stack' = <<>>
    /\ ctx' = NewContext(sieve.num_vars)
    /\ outcome' = [i \in 1..Len(script) |-> "none"]
    /\ last' = -1
    /\ RunFrame

\* Test: the message decides the result.
ExecTest ==
    /\ Running /\ Cur.op = "Test"
    /\ \E r \in BOOLEAN :
         /\ test_result' = r
         /\ outcome' = [outcome EXCEPT ![Cur.src] = IF r THEN "true" ELSE "false"]
    /\ pc' = pc + 1
    /\ last' = pc
    /\ UNCHANGED <<phase, part_stack, ctx>>
    /\ RunFrame

ExecJz ==
    /\ Running /\ Cur.op = "Jz"
    /\ pc' = IF test_result THEN pc + 1 ELSE Cur.addr
    /\ last' = pc
    /\ UNCHANGED <<phase, test_result, part_stack, outcome, ctx>>
    /\ RunFrame

ExecJmp ==
    /\ Running /\ Cur.op = "Jmp"
    /\ pc' = Cur.addr
    /\ last' = pc
    /\ UNCHANGED <<phase, test_result, part_stack, outcome, ctx>>
    /\ RunFrame

\* ForEveryPartPush: an iterator over the parts 1..parts of the current part,
\* in document order; next is the part that it gives next.
ExecForEveryPartPush ==
    /\ Running /\ Cur.op = "ForEveryPartPush"
    /\ \E n \in 0..MaxParts : part_stack' = Append(part_stack, [parts |-> n, next |-> 1])
    /\ pc' = pc + 1
    /\ last' = pc
    /\ UNCHANGED <<phase, test_result, outcome, ctx>>
    /\ RunFrame

\* ForEveryPart: the next part, or on exhaustion drop the iterator and jump.
ExecForEveryPart ==
    /\ Running /\ Cur.op = "ForEveryPart"
    /\ part_stack # <<>>
    /\ IF Last(part_stack).next <= Last(part_stack).parts
       THEN /\ part_stack' = [part_stack EXCEPT ![Len(part_stack)].next = @ + 1]
            /\ pc' = pc + 1
       ELSE /\ part_stack' = Front(part_stack)
            /\ pc' = Cur.jz_pos
    /\ last' = pc
    /\ UNCHANGED <<phase, test_result, outcome, ctx>>
    /\ RunFrame

\* ForEveryPartPop(n): drop n iterators.
ExecForEveryPartPop ==
    /\ Running /\ Cur.op = "ForEveryPartPop"
    /\ Cur.n <= Len(part_stack)
    /\ part_stack' = SubSeq(part_stack, 1, Len(part_stack) - Cur.n)
    /\ pc' = pc + 1
    /\ last' = pc
    /\ UNCHANGED <<phase, test_result, outcome, ctx>>
    /\ RunFrame

\* The pending action of an action instruction.
Action(ins) ==
    [kind |-> ins.op, target |-> IF "target" \in DOMAIN ins THEN ins.target ELSE ""]

\* A slip that appends the action without looking for an equal one.
AddAction_no_dedup(actions, act) == Append(actions, act)

\* The pending-action list after act was executed: an action equal to one in
\* the list is not added again.
AddAction(actions, act) ==
    IF \E i \in 1..Len(actions) : actions[i] = act THEN actions ELSE Append(actions, act)

\* Clear: local slots [local_vars_idx, local_vars_idx + local_vars_num) are
\* reset.
ClearLocals(locals, ins) ==
    [i \in DOMAIN locals |->
        IF i - 1 \in ins.local_vars_idx..(ins.local_vars_idx + ins.local_vars_num - 1)
        THEN <<>> ELSE locals[i]]

\* What executing the instruction ins does to the Context.
Effect(c, ins) ==
    CASE ins.op = "Set" -> SetExec(c, ins)
      [] ins.op = "Clear" -> [c EXCEPT !.vars_local = ClearLocals(@, ins)]
      [] ins.op \in {"Discard", "Keep", "FileInto", "Redirect"} ->
           [c EXCEPT !.actions = AddAction(@, Action(ins))]
      [] OTHER -> c

\* A slip that adds the implicit Keep whatever the run did.
FinalActions_always_keep(actions) ==
    AddAction(actions, [kind |-> "Keep", target |-> ""])

\* The action list of the Finished event: the implicit Keep when no
\* canceling action was retained.
FinalActions(actions) ==
    IF actions = <<>> THEN <<[kind |-> "Keep", target |-> ""]>> ELSE actions

\* The run ends: the Finished event carries the consolidated action list.
Finished(c) ==
    [c EXCEPT !.delivered =
        Append(@, [event |-> "Finished", actions |-> FinalActions(c.actions)])]

\* An instruction that transfers no control.
ExecAction ==
    /\ Running
    /\ Cur.op \in {"Set", "Discard", "Clear", "Keep", "FileInto", "Redirect"}
    /\ ctx' = Effect(ctx, Cur)
    /\ pc' = pc + 1
    /\ last' = pc
    /\ UNCHANGED <<phase, test_result, part_stack, outcome>>
    /\ RunFrame

\* "If the event FIFO is non-empty, yield its head to the caller."
YieldEvent ==
    /\ phase = "run"
    /\ ctx.queued_events # <<>>
    /\ ctx' = [ctx EXCEPT !.queued_events = Tail(@),
                          !.delivered = Append(@, Head(ctx.queued_events))]
    /\ UNCHANGED <<phase, pc, test_result, part_stack, outcome, last>>
    /\ RunFrame

\* Stop ends the run.
ExecStop ==
    /\ Running /\ Cur.op = "Stop"
    /\ phase' = "done"
    /\ ctx' = Finished(ctx)
    /\ last' = pc
    /\ UNCHANGED <<pc, test_result, part_stack, outcome>>
    /\ RunFrame

\* Return from the top-level script ends the run.
ExecReturn ==
    /\ Running /\ Cur.op = "Return"
    /\ phase' = "done"
    /\ ctx' = Finished(ctx)
    /\ last' = pc
    /\ UNCHANGED <<pc, test_result, part_stack, outcome>>
    /\ RunFrame

\* Execution reached an Invalid left by the compiler: the run fails with
\* InvalidInstruction.
ExecInvalid ==
    /\ Running /\ Cur.op = "Invalid"
    /\ phase' = "failed"
    /\ last' = pc
    /\ UNCHANGED <<pc, test_result, part_stack, outcome, ctx>>
    /\ RunFrame

\* pc == len(instructions): the run is finished.
RunFinish ==
    /\ phase = "run" /\ pc = Len(sieve.instructions) /\ ctx.queued_events = <<>>
    /\ phase' = "done"
    /\ ctx' = Finished(ctx)
    /\ UNCHANGED <<pc, test_result, part_stack, outcome, last>>
    /\ RunFrame

\* ------------------------------------------------------------ specifications
\* Control flow: every block and jump statement, and the run of the program.
Next ==
    \/ CompileIf
    \/ CompileElsIf
    \/ CompileElse
    \/ CompileDiscard
    \/ CompileSet
    \/ CompileForEveryPart
    \/ CompileBreak
    \/ CompileReturn
    \/ CompileInvalid
    \/ CompileCurlyClose
    \/ CompileUnexpectedToken
    \/ CompileEOF
    \/ RunStart
    \/ ExecTest
    \/ ExecJz
    \/ ExecJmp
    \/ ExecForEveryPartPush
    \/ ExecForEveryPart
    \/ ExecForEveryPartPop
    \/ ExecAction
    \/ ExecReturn
    \/ ExecInvalid
    \/ RunFinish

Spec == Init /\ [][Next]_vars

\* if / elsif / else chains and the statements in their bodies.
InitChain ==
    InitState([stmts |-> MaxChainStmts, size |-> DefaultMaxScriptSize,
               match_vars |-> 1..MaxMatchVariables, labels |-> {},
               names |-> VarNames, values |-> {<<>>},
               modifiers |-> {<<>>},
               replay |-> <<>>, first |-> NoResult], DefaultCompiler)

NextChain ==
    \/ CompileIf
    \/ CompileElsIf
    \/ CompileElse
    \/ CompileDiscard
    \/ CompileSet
    \/ CompileCurlyClose
    \/ CompileUnexpectedToken
    \/ CompileEOF
    \/ RunStart
    \/ ExecTest
    \/ ExecJz
    \/ ExecJmp
    \/ ExecAction
    \/ RunFinish

SpecChain == InitChain /\ [][NextChain]_vars

\* foreverypart loops, break and return, with if blocks in between.
InitLoop ==
    InitState([stmts |-> MaxLoopStmts, size |-> DefaultMaxScriptSize,
               match_vars |-> 1..MaxMatchVariables, labels |-> Labels,
               names |-> VarNames, values |-> {<<>>},
               modifiers |-> {<<>>},
               replay |-> <<>>, first |-> NoResult], DefaultCompiler)

NextLoop ==
    \/ CompileIf
    \/ CompileSet
    \/ CompileForEveryPart
    \/ CompileBreak
    \/ CompileReturn
    \/ CompileCurlyClose
    \/ CompileEOF
    \/ RunStart
    \/ ExecTest
    \/ ExecJz
    \/ ExecJmp
    \/ ExecForEveryPartPush
    \/ ExecForEveryPart
    \/ ExecForEveryPartPop
    \/ ExecAction
    \/ ExecReturn
    \/ RunFinish

SpecLoop == InitLoop /\ [][NextLoop]_vars

\* Loops, breaks out of them and tests around the breaks, and the run of the
\* program.
InitPart ==
    InitState([stmts |-> MaxPartStmts, size |-> DefaultMaxScriptSize, match_vars |-> {},
               labels |-> Labels, names |-> {}, values |-> {<<>>},
               modifiers |-> {<<>>},
               replay |-> <<>>, first |-> NoResult], DefaultCompiler)

\* One turn of the dispatch loop.
DispatchPart ==
    \/ ExecTest
    \/ ExecJz
    \/ ExecJmp
    \/ ExecForEveryPartPush
    \/ ExecForEveryPart
    \/ ExecForEveryPartPop
    \/ RunFinish

NextPart ==
    \/ CompileIf
    \/ CompileForEveryPart
    \/ CompileBreak
    \/ CompileCurlyClose
    \/ CompileEOF
    \/ RunStart
    \/ DispatchPart

\* run() keeps dispatching until the program ends: no instruction suspends.
SpecPart == InitPart /\ [][NextPart]_vars /\ WF_vars(DispatchPart)

\* require and the commands gated by capabilities, with capability checking
\* enabled as in Compiler::new.
InitCap ==
    InitState([stmts |-> MaxCapStmts, size |-> DefaultMaxScriptSize,
               match_vars |-> 1..MaxMatchVariables, labels |-> {},
               names |-> VarNames, values |-> {<<>>},
               modifiers |-> {<<>>},
               replay |-> <<>>, first |-> NoResult],
              [DefaultCompiler EXCEPT !.no_capability_check = FALSE])

NextCap ==
    \/ CompileRequire
    \/ CompileIf
    \/ CompileDiscard
    \/ CompileSet
    \/ CompileForEveryPart
    \/ CompileBreak
    \/ CompileReturn
    \/ CompileExtension
    \/ CompileInclude
    \/ CompileGlobal
    \/ CompileCurlyClose
    \/ CompileEOF

SpecCap == InitCap /\ [][NextCap]_vars

\* Local and global variables in nested and sibling blocks.  The names are
\* in lower case, as a parser hands them over that folds them.
InitVars ==
    InitState([stmts |-> MaxVarStmts, size |-> DefaultMaxScriptSize,
               match_vars |-> 1..MaxMatchVariables, labels |-> {},
               names |-> {"x", "y"}, values |-> {<<>>},
               modifiers |-> {<<>>},
               replay |-> <<>>, first |-> NoResult], DefaultCompiler)

NextVars ==
    \/ CompileIf
    \/ CompileElse
    \/ CompileSet
    \/ CompileGlobal
    \/ CompileCurlyClose
    \/ CompileEOF

SpecVars == InitVars /\ [][NextVars]_vars

\* The same statements with names handed to register_local_var as the script
\* spells them, upper case included.
InitCase ==
    InitState([stmts |-> MaxCaseStmts, size |-> DefaultMaxScriptSize,
               match_vars |-> 1..MaxMatchVariables, labels |-> {},
               names |-> {"x", "X"}, values |-> {<<>>},
               modifiers |-> {<<>>},
               replay |-> <<>>, first |-> NoResult], DefaultCompiler)

SpecCase == InitCase /\ [][NextVars]_vars

\* Match tests and ${n} in nested and sibling blocks.
InitMatch ==
    InitState([stmts |-> MaxMatchStmts, size |-> DefaultMaxScriptSize,
               match_vars |-> 1..MaxMatchVariables, labels |-> {},
               names |-> {}, values |-> {<<>>},
               modifiers |-> {<<>>},
               replay |-> <<>>, first |-> NoResult], DefaultCompiler)

NextMatch ==
    \/ CompileIf
    \/ CompileIfMatches
    \/ CompileElse
    \/ CompileRedirect
    \/ CompileCurlyClose
    \/ CompileEOF

SpecMatch == InitMatch /\ [][NextMatch]_vars

\* Scripts of every byte length up to one byte above max_script_size, from the
\* call of compile on.
InitSize ==
    \E n \in 0..(MaxScriptSize + 1) :
        InitStateAt([stmts |-> MaxStmts, size |-> n, match_vars |-> {}, labels |-> {},
                     names |-> {}, values |-> {<<>>},
               modifiers |-> {<<>>},
               replay |-> <<>>, first |-> NoResult],
                    [DefaultCompiler EXCEPT !.max_script_size = MaxScriptSize], "new")

NextSize ==
    \/ CompileBegin
    \/ CompileIf
    \/ CompileDiscard
    \/ CompileCurlyClose
    \/ CompileEOF

SpecSize == InitSize /\ [][NextSize]_vars

\* Match variables at the width of the mask, with max_match_variables set
\* above it.
InitWide ==
    InitState([stmts |-> MaxWideStmts, size |-> DefaultMaxScriptSize,
               match_vars |-> {1} \cup (MaxMatchBit - 1)..WideMatchVariables,
               labels |-> {}, names |-> {}, values |-> {<<>>},
               modifiers |-> {<<>>},
               replay |-> <<>>, first |-> NoResult],
              [DefaultCompiler EXCEPT !.max_match_variables = WideMatchVariables])

NextWide ==
    \/ CompileIf
    \/ CompileIfMatches
    \/ CompileRedirect
    \/ CompileCurlyClose
    \/ CompileEOF

SpecWide == InitWide /\ [][NextWide]_vars

\* The strings of at most MaxValueLen characters over chars.
StringsOver(chars) == UNION {[1..n -> chars] : n \in 0..MaxValueLen}

\* Runs of set statements whose values are around max_variable_size, with
\* modifiers, on a local, a global and an envelope part.
InitSet ==
    InitState([stmts |-> MaxSetStmts, size |-> DefaultMaxScriptSize, match_vars |-> {},
               labels |-> {}, names |-> {"x", "envelope.from"},
               values |-> StringsOver({"sz", "*"}),
               modifiers |-> {<<>>, <<"Upper">>, <<"QuoteWildcard">>},
               replay |-> <<>>, first |-> NoResult],
              [DefaultCompiler EXCEPT !.max_variable_size = 3])

NextSet ==
    \/ CompileGlobal
    \/ CompileSet
    \/ CompileEOF
    \/ RunStart
    \/ ExecAction
    \/ YieldEvent
    \/ RunFinish

SpecSet == InitSet /\ [][NextSet]_vars

\* Runs of straight-line scripts of action statements and stop.
InitAct ==
    InitState([stmts |-> MaxActStmts, size |-> DefaultMaxScriptSize, match_vars |-> {1},
               labels |-> {}, names |-> {}, values |-> {<<>>},
               modifiers |-> {<<>>},
               replay |-> <<>>, first |-> NoResult], DefaultCompiler)

NextAct ==
    \/ CompileKeep
    \/ CompileFileInto
    \/ CompileRedirect
    \/ CompileDiscard
    \/ CompileStop
    \/ CompileEOF
    \/ RunStart
    \/ ExecAction
    \/ ExecStop
    \/ RunFinish

SpecAct == InitAct /\ [][NextAct]_vars

\* compile is called again on the same Compiler with the script that the first
\* call has read: a new CompilerState, the same bytes.
CompileAgain ==
    /\ phase \in {"ok", "err"}
    /\ budget.replay = <<>>
    /\ script # <<>>
    /\ budget' = [budget EXCEPT !.replay = script,
                                !.first = [phase |-> phase, sieve |-> sieve,
                                           error |-> error]]
    /\ script' = <<>>
    /\ peek' = "none"
    /\ instructions' = <<>>
    /\ block_stack' = <<>>
    /\ block' = NewBlock("Not")
    /\ last_block_type' = "Not"
    /\ vars_global' = {}
    /\ vars_num' = 0
    /\ vars_num_max' = 0
    /\ vars_match_max' = 0
    /\ includes_num' = 0
    /\ phase' = "compile"
    /\ error' = NoError
    /\ sieve' = NoSieve
    /\ UNCHANGED <<compiler, rvars>>

\* Two compilations of every script of control flow, sets and invalid words.
InitTwice ==
    InitState([stmts |-> MaxTwiceStmts, size |-> DefaultMaxScriptSize,
               match_vars |-> {}, labels |-> Labels,
               names |-> VarNames, values |-> {<<>>},
               modifiers |-> {<<>>},
               replay |-> <<>>, first |-> NoResult], DefaultCompiler)

NextTwice ==
    \/ CompileIf
    \/ CompileElsIf
    \/ CompileElse
    \/ CompileDiscard
    \/ CompileSet
    \/ CompileForEveryPart
    \/ CompileBreak
    \/ CompileReturn
    \/ CompileInvalid
    \/ CompileCurlyClose
    \/ CompileUnexpectedToken
    \/ CompileEOF
    \/ CompileAgain

SpecTwice == InitTwice /\ [][NextTwice]_vars

\* A slip that compares every field, the compiled program included.
RegexEq_every_field(a, b) == a = b

\* impl PartialEq for Regex: "self.expr == other.expr"
RegexEq(a, b) == a.expr = b.expr

\* impl Serialize for Regex: "self.expr.serialize(serializer)"
SerializeRegex(r) == r.expr

\* impl Deserialize for Regex: the string is compiled again; the Result is the
\* set of its Ok values.
DeserializeRegex(expr) ==
    IF ValidExpr(expr) THEN {RegexNew(expr, "deserialize")} ELSE {}

\* derive(Serialize) on Instruction: the variant and every field by name, a
\* Regex through its own impl.
SerializeInstruction(ins) ==
    [f \in DOMAIN ins |-> IF f = "regex" THEN SerializeRegex(ins[f]) ELSE ins[f]]

\* derive(Deserialize) on Instruction, for a record whose Regex deserialises.
DeserializeInstruction(w) ==
    [f \in DOMAIN w |->
        IF f = "regex" THEN CHOOSE r \in DeserializeRegex(w[f]) : TRUE ELSE w[f]]

\* serialize(S)
Serialize(s) ==
    [instructions |-> [i \in 1..Len(s.instructions) |->
                          SerializeInstruction(s.instructions[i])],
     num_vars |-> s.num_vars,
     num_match_vars |-> s.num_match_vars]

\* deserialize(bytes): the set of its Ok values, empty when a Regex of the
\* program does not compile.
Deserialize(w) ==
    IF \E i \in 1..Len(w.instructions) :
          /\ "regex" \in DOMAIN w.instructions[i]
          /\ DeserializeRegex(w.instructions[i].regex) = {}
    THEN {}
    ELSE {[instructions |-> [i \in 1..Len(w.instructions) |->
                                DeserializeInstruction(w.instructions[i])],
           num_vars |-> w.num_vars,
           num_match_vars |-> w.num_match_vars]}

\* derive(PartialEq) on Instruction: the same variant and equal fields, a
\* Regex by its own impl.
InstructionEq(a, b) ==
    /\ DOMAIN a = DOMAIN b
    /\ \A f \in DOMAIN a : IF f = "regex" THEN RegexEq(a[f], b[f]) ELSE a[f] = b[f]

\* Sieve == Sieve
SieveEq(a, b) ==
    /\ a.num_vars = b.num_vars
    /\ a.num_match_vars = b.num_match_vars
    /\ Len(a.instructions) = Len(b.instructions)
    /\ \A i \in 1..Len(a.instructions) : InstructionEq(a.instructions[i], b.instructions[i])

\* The compiled Sieve is serialised and read back; first keeps the original.
RoundTrip ==
    /\ phase = "ok"
    /\ LET d == Deserialize(Serialize(sieve))
       IN  IF d = {}
           THEN phase' = "unreadable" /\ sieve' = sieve
           ELSE phase' = "loaded" /\ sieve' = CHOOSE x \in d : TRUE
    /\ budget' = [budget EXCEPT !.first = [phase |-> phase, sieve |-> sieve,
                                           error |-> error]]
    /\ UNCHANGED <<compiler, script, peek, instructions, block_stack, block,
                   last_block_type, vars_global, vars_num, vars_num_max,
                   vars_match_max, includes_num, error, rvars>>

\* Programs with :regex tests, plain tests and actions, serialised and read
\* back.
InitSerde ==
    InitState([stmts |-> MaxSerdeStmts, size |-> DefaultMaxScriptSize,
               match_vars |-> {}, labels |-> {},
               names |-> {}, values |-> {<<>>},
               modifiers |-> {<<>>},
               replay |-> <<>>, first |-> NoResult], DefaultCompiler)

NextSerde ==
    \/ CompileIf
    \/ CompileIfRegex
    \/ CompileDiscard
    \/ CompileFileInto
    \/ CompileCurlyClose
    \/ CompileEOF
    \/ RoundTrip

SpecSerde == InitSerde /\ [][NextSerde]_vars

\* ------------------------------------------------- Compiler::new, setters
\* Compiler::new (the functions table, empty, is left out).
CompilerNew ==
    [max_script_size |-> 1024 * 1024,
     max_string_size |-> 4096,
     max_variable_name_size |-> 32,
     max_nested_blocks |-> 15,
     max_nested_tests |-> 15,
     max_nested_foreverypart |-> 3,
     max_match_variables |-> 30,
     max_local_variables |-> 128,
     max_header_size |-> 1024,
     max_includes |-> 6,
     no_capability_check |-> FALSE]

\* The options that have a set_X and a with_X.
Options == DOMAIN CompilerNew

\* The arguments passed to them: a usize, or a bool for no_capability_check.
Sizes == {0, 7}
Arguments(option) == IF option = "no_capability_check" THEN BOOLEAN ELSE Sizes

\* A slip in set_max_nested_tests, which writes the limit of its neighbour.
set_option_wrong_field(c, option, size) ==
    IF option = "max_nested_tests" THEN [c EXCEPT !.max_nested_blocks = size]
    ELSE [c EXCEPT ![option] = size]

\* set_X(&mut self, size), one arm for each of the setters.
set_option(c, option, size) ==
    CASE option = "max_header_size" -> [c EXCEPT !.max_header_size = size]
      [] option = "max_includes" -> [c EXCEPT !.max_includes = size]
      [] option = "max_nested_blocks" -> [c EXCEPT !.max_nested_blocks = size]
      [] option = "max_nested_tests" -> [c EXCEPT !.max_nested_tests = size]
      [] option = "max_nested_foreverypart" -> [c EXCEPT !.max_nested_foreverypart = size]
      [] option = "max_script_size" -> [c EXCEPT !.max_script_size = size]
      [] option = "max_string_size" -> [c EXCEPT !.max_string_size = size]
      [] option = "max_variable_name_size" -> [c EXCEPT !.max_variable_name_size = size]
      [] option = "max_match_variables" -> [c EXCEPT !.max_match_variables = size]
      [] option = "max_local_variables" -> [c EXCEPT !.max_local_variables = size]
      [] option = "no_capability_check" -> [c EXCEPT !.no_capability_check = size]

\* with_X(mut self, size) -> Self, one arm for each of them.
with_option(c, option, size) ==
    CASE option = "max_header_size" -> [c EXCEPT !.max_header_size = size]
      [] option = "max_includes" -> [c EXCEPT !.max_includes = size]
      [] option = "max_nested_blocks" -> [c EXCEPT !.max_nested_blocks = size]
      [] option = "max_nested_tests" -> [c EXCEPT !.max_nested_tests = size]
      [] option = "max_nested_foreverypart" -> [c EXCEPT !.max_nested_foreverypart = size]
      [] option = "max_script_size" -> [c EXCEPT !.max_script_size = size]
      [] option = "max_string_size" -> [c EXCEPT !.max_string_size = size]
      [] option = "max_variable_name_size" -> [c EXCEPT !.max_variable_name_size = size]
      [] option = "max_match_variables" -> [c EXCEPT !.max_match_variables = size]
      [] option = "max_local_variables" -> [c EXCEPT !.max_local_variables = size]
      [] option = "no_capability_check" -> [c EXCEPT !.no_capability_check = size]

\* The frame of a call on the Compiler; script keeps the calls made.
ConfigFrame ==
    UNCHANGED <<budget, peek, instructions, block_stack, block, last_block_type,
                vars_global, vars_num, vars_num_max, vars_match_max, includes_num,
                phase, error, sieve, rvars>>

\* compiler.set_X(size)
CallSet ==
    /\ phase = "config"
    /\ Len(script) < MaxCalls
    /\ \E option \in Options : \E size \in Arguments(option) :
         /\ compiler' = set_option(compiler, option, size)
         /\ script' = Append(script, [w |-> "set", option |-> option, size |-> size])
    /\ ConfigFrame

\* compiler = compiler.with_X(size)
CallWith ==
    /\ phase = "config"
    /\ Len(script) < MaxCalls
    /\ \E option \in Options : \E size \in Arguments(option) :
         /\ compiler' = with_option(compiler, option, size)
         /\ script' = Append(script, [w |-> "with", option |-> option, size |-> size])
    /\ ConfigFrame

\* A Compiler from Compiler::new, then configured.
InitConfig ==
    InitStateAt([stmts |-> 0, size |-> DefaultMaxScriptSize,
                 match_vars |-> {}, labels |-> {},
                 names |-> {}, values |-> {<<>>},
                 modifiers |-> {<<>>},
                 replay |-> <<>>, first |-> NoResult], CompilerNew, "config")

NextConfig ==
    \/ CallSet
    \/ CallWith

SpecConfig == InitConfig /\ [][NextConfig]_vars

\* Set::exec called on the Context as it is, whether or not the host has taken
\* the event that an earlier instruction queued.
ExecSet ==
    /\ phase = "run" /\ pc < Len(sieve.instructions)
    /\ Cur.op = "Set"
    /\ ctx' = SetExec(ctx, Cur)
    /\ pc' = pc + 1
    /\ last' = pc
    /\ UNCHANGED <<phase, test_result, part_stack, outcome>>
    /\ RunFrame

\* Runs of set statements on envelope parts and on a local, in which events
\* may stay in the queue while the next instruction executes.
InitEvent ==
    InitState([stmts |-> MaxEventStmts, size |-> DefaultMaxScriptSize, match_vars |-> {},
               labels |-> {}, names |-> {"x", "envelope.from", "envelope.to"},
               values |-> {<<"a">>, <<"b">>}, modifiers |-> {<<>>},
               replay |-> <<>>, first |-> NoResult],
              [DefaultCompiler EXCEPT !.max_variable_size = 3])

NextEvent ==
    \/ CompileSet
    \/ CompileEOF
    \/ RunStart
    \/ ExecSet
    \/ YieldEvent
    \/ RunFinish

SpecEvent == InitEvent /\ [][NextEvent]_vars

\* Sibling foreverypart loops that set a local and break, and the run of the
\* program.
InitSlot ==
    InitState([stmts |-> MaxSlotStmts, size |-> DefaultMaxScriptSize, match_vars |-> {},
               labels |-> {}, names |-> VarNames, values |-> {<<"a">>},
               modifiers |-> {<<>>},
               replay |-> <<>>, first |-> NoResult], DefaultCompiler)

NextSlot ==
    \/ CompileSet
    \/ CompileForEveryPart
    \/ CompileBreak
    \/ CompileCurlyClose
    \/ CompileEOF
    \/ RunStart
    \/ ExecJmp
    \/ ExecForEveryPartPush
    \/ ExecForEveryPart
    \/ ExecForEveryPartPop
    \/ ExecAction
    \/ RunFinish

SpecSlot == InitSlot /\ [][NextSlot]_vars

\* Compilations of if / elsif / else chains, loops, breaks and sets nested in
\* each other, with a '}' at any place.
InitBlocks ==
    InitState([stmts |-> MaxBlockStmts, size |-> DefaultMaxScriptSize, match_vars |-> {},
               labels |-> Labels, names |-> VarNames, values |-> {<<>>},
               modifiers |-> {<<>>},
               replay |-> <<>>, first |-> NoResult], DefaultCompiler)

NextBlocks ==
    \/ CompileIf
    \/ CompileElsIf
    \/ CompileElse
    \/ CompileSet
    \/ CompileForEveryPart
    \/ CompileBreak
    \/ CompileCurlyClose
    \/ CompileUnexpectedToken
    \/ CompileEOF

SpecBlocks == InitBlocks /\ [][NextBlocks]_vars

\* The characters of the inputs of Modifier::apply: a letter, characters that
\* the quoting modifiers escape, a space and a two-byte character.
InputChars == {"a", ".", "*", "bs", " ", "sz"}
Inputs == UNION {[1..n -> InputChars] : n \in 0..MaxInputLen}

\* modifier.apply(input, ctx) on a Context whose max_variable_size is max_len;
\* script keeps the call and what it returned.
CallApply ==
    /\ phase = "apply"
    /\ script = <<>>
    /\ \E modifier \in {"QuoteWildcard", "QuoteRegex", "EncodeUrl"} :
       \E input \in Inputs : \E max_len \in 0..MaxApplyLen :
          script' = <<[w |-> modifier, input |-> input, max_len |-> max_len,
                       result |-> apply(modifier, input, max_len)]>>
    /\ UNCHANGED <<compiler>>
    /\ ConfigFrame

InitApply ==
    InitStateAt([stmts |-> 0, size |-> DefaultMaxScriptSize,
                 match_vars |-> {}, labels |-> {},
                 names |-> {}, values |-> {<<>>},
                 modifiers |-> {<<>>},
                 replay |-> <<>>, first |-> NoResult], DefaultCompiler, "apply")

NextApply ==
    \/ CallApply

SpecApply == InitApply /\ [][NextApply]_vars

\* ctx.add_set_envelope_event(envelope, value); script keeps the calls made.
CallAddSetEnvelopeEvent ==
    /\ phase = "envelope"
    /\ Len(script) < MaxEnvelopeCalls
    /\ \E envelope \in {"from", "to"} : \E value \in {<<"a">>, <<"b">>} :
         /\ ctx' = add_set_envelope_event(ctx, envelope, value)
         /\ script' = Append(script, [w |-> "add_set_envelope_event",
                                      envelope |-> envelope, value |-> value])
    /\ UNCHANGED <<budget, compiler, peek, instructions, block_stack, block,
                   last_block_type, vars_global, vars_num, vars_num_max, vars_match_max,
                   includes_num, phase, error, sieve, pc, test_result, part_stack,
                   outcome, last>>

\* A new Context, whose envelope list is empty.
InitEnvelope ==
    InitStateAt([stmts |-> 0, size |-> DefaultMaxScriptSize,
                 match_vars |-> {}, labels |-> {},
                 names |-> {}, values |-> {<<>>},
                 modifiers |-> {<<>>},
                 replay |-> <<>>, first |-> NoResult], DefaultCompiler, "envelope")

NextEnvelope ==
    \/ CallAddSetEnvelopeEvent

SpecEnvelope == InitEnvelope /\ [][NextEnvelope]_vars

\* ------------------------------------------------- the script's structure
\* What the claims say about a script is read off the statements themselves,
\* by matching braces, independently of the compiler's block stack.

\* The block-opening statements still open after the first k statements.
RECURSIVE OpenStack(_)
OpenStack(k) ==
    IF k = 0 THEN <<>>
    ELSE LET s == OpenStack(k - 1)
             w == script[k].w
         IN  IF w \in BlockWords THEN Append(s, k)
             ELSE IF w = "}" /\ s # <<>> THEN Front(s)
             ELSE s

\* The blocks that enclose statement i, outermost first.
Encl(i) == OpenStack(i - 1)

\* The '}' that closes the block opened by statement s (0 while it is open).
CloseOf(s) ==
    LET cs == {c \in (s + 1)..Len(script) :
                  /\ script[c].w = "}"
                  /\ OpenStack(c - 1) # <<>>
                  /\ Last(OpenStack(c - 1)) = s}
    IN  IF cs = {} THEN 0 ELSE CHOOSE c \in cs : TRUE

\* Statement i was compiled (a statement that fails is the last one read).
Compiled(i) == i \in 1..Len(script) /\ (phase = "err" => i < Len(script))

\* The instructions emitted by statement i, in order.
Emitted(i) == SelectSeq(instructions, LAMBDA x : x.src = i)

\* The address of the first instruction emitted after statement i.
AddrAfter(i) == Cardinality({a \in 1..Len(instructions) : instructions[a].src <= i})

\* The instruction at address a.
At(a) == instructions[a + 1]

\* The foreverypart statements among the blocks enclosing i, innermost first.
LoopsAround(i) ==
    LET e == Reverse(Encl(i))
    IN  SelectSeq(e, LAMBDA s : script[s].w = "foreverypart")

Returned == phase \in {"ok", "run", "done", "failed"}

\* The addresses held by the jumps of a program.
JumpAddrs(prog) ==
    {prog[a].addr : a \in {b \in 1..Len(prog) : prog[b].op \in {"Jmp", "Jz", "Jnz"}}}
    \cup {prog[a].jz_pos : a \in {b \in 1..Len(prog) : prog[b].op = "ForEveryPart"}}

\* ------------------------------------------------------------------ claims

\* C1: in the instruction vector of every Sieve that compile returns, no Jmp,
\* Jz, Jnz or ForEveryPart.jz_pos holds the placeholder usize::MAX.
C1_JumpsResolved ==
    Returned => USIZE_MAX \notin JumpAddrs(sieve.instructions)

\* C1 witness: a returned program with a foreverypart, a break out of it
\* from inside an if, all of them backpatched.
C1_Witness ==
    /\ phase = "ok"
    /\ \E a, b, c \in 1..Len(sieve.instructions) :
         /\ sieve.instructions[a].op = "ForEveryPart"
         /\ sieve.instructions[b].op = "Jz"
         /\ sieve.instructions[c].op = "Jmp"
         /\ script[sieve.instructions[c].src].w = "break"

Branches == {s \in 1..Len(script) : script[s].w \in {"if", "elsif", "else"} /\ Compiled(s)}

\* The branch that the elsif or else at s continues: the if or elsif whose
\* '}' is the statement right before s (0 when there is none).
PrevBranch(s) ==
    IF /\ script[s].w \in {"elsif", "else"}
       /\ s > 1
       /\ script[s - 1].w = "}"
       /\ OpenStack(s - 2) # <<>>
       /\ script[Last(OpenStack(s - 2))].w \in {"if", "elsif"}
    THEN Last(OpenStack(s - 2))
    ELSE 0

\* All the branches of the chain before s.
RECURSIVE PrevBranches(_)
PrevBranches(s) ==
    IF PrevBranch(s) = 0 THEN {} ELSE {PrevBranch(s)} \cup PrevBranches(PrevBranch(s))

\* The elsif or else that continues the branch s (0 when s ends its chain).
NextBranch(s) ==
    LET c == CloseOf(s)
    IN  IF /\ c # 0
           /\ c + 1 <= Len(script)
           /\ script[s].w \in {"if", "elsif"}
           /\ script[c + 1].w \in {"elsif", "else"}
           /\ Compiled(c + 1)
        THEN c + 1
        ELSE 0

\* The '}' that ends the whole chain of branch s.
RECURSIVE FinalClose(_)
FinalClose(s) == IF NextBranch(s) = 0 THEN CloseOf(s) ELSE FinalClose(NextBranch(s))

\* The instruction at address a was emitted inside branch s: by a statement
\* of its body or by its '}'.
InBranch(a, s) == s < At(a).src /\ At(a).src <= CloseOf(s)

\* The run is inside branch s only if the test of s was true (an else has
\* none) and the test of every earlier branch of its chain was false.
C3_InFirstTrueBranch ==
    (phase = "run" /\ pc < Len(instructions)) =>
        \A s \in Branches :
            InBranch(pc, s) =>
                /\ script[s].w # "else" => outcome[s] = "true"
                /\ \A p \in PrevBranches(s) : outcome[p] = "false"

\* After the Jz of a branch the run is at the first instruction of its body
\* when the test was true, and otherwise right after its '}': at the test of
\* the next elsif, at the body of the else, or after the chain.
C3_EntersOrSkips ==
    (phase = "run" /\ last >= 0 /\ At(last).op = "Jz") =>
        pc = IF test_result
             THEN AddrAfter(At(last).src)
             ELSE AddrAfter(CloseOf(At(last).src))

\* When the run leaves a branch it is at the first instruction after the
\* whole chain.
C3_ContinuesAfterChain ==
    (phase = "run" /\ last >= 0) =>
        \A s \in Branches :
            (InBranch(last, s) /\ ~(pc < Len(instructions) /\ InBranch(pc, s)))
                => pc = AddrAfter(FinalClose(s))

\* C3: the run of a compiled if / elsif* / else? chain enters the body of the
\* first branch whose test is true, or the else body when none is, enters no
\* other body of the chain, and continues at the first instruction after the
\* whole chain, also when the chain is nested inside a branch of another one.
C3_ChainSemantics ==
    /\ C3_InFirstTrueBranch
    /\ C3_EntersOrSkips
    /\ C3_ContinuesAfterChain

\* C3 witness: the run is in the body of an else whose chain is nested inside
\* a branch of another chain.
C3_Witness ==
    /\ phase = "run"
    /\ pc < Len(instructions)
    /\ At(pc).op \in {"Set", "Discard"}
    /\ \E s, t \in Branches :
         /\ s < t
         /\ InBranch(pc, s)
         /\ InBranch(pc, t)
         /\ script[t].w = "else"
         /\ PrevBranches(t) # {}

\* The compiled foreverypart statements, and the compiled break statements.
Loops == {s \in 1..Len(script) : script[s].w = "foreverypart" /\ Compiled(s)}
Breaks == {i \in 1..Len(script) : script[i].w = "break" /\ Compiled(i)}

\* The block of statement s is closed, and its '}' was compiled.
Closed(s) == CloseOf(s) # 0 /\ Compiled(CloseOf(s))

\* The address of the ForEveryPart instruction of loop s.
LoopHead(s) == AddrAfter(s) - 1

\* C4: a foreverypart block compiles to ForEveryPartPush, ForEveryPart{jz},
\* the body, Jmp; the closing Jmp targets the address of the ForEveryPart
\* instruction, not of the ForEveryPartPush, and jz is patched to the address
\* right after the closing Jmp.
C4_LoopLayout ==
    \A s \in Loops :
        LET h == LoopHead(s)
        IN  /\ Len(Emitted(s)) = 2
            /\ h >= 1
            /\ At(h - 1).op = "ForEveryPartPush" /\ At(h - 1).src = s
            /\ At(h).op = "ForEveryPart" /\ At(h).src = s
            /\ Closed(s) =>
                 LET c == CloseOf(s)
                     j == AddrAfter(c) - 1
                 IN  /\ j > h
                     /\ At(j).op = "Jmp" /\ At(j).src = c
                     /\ At(j).addr = h
                     /\ At(h).jz_pos = j + 1
                     /\ \A a \in (h + 1)..(j - 1) : s < At(a).src /\ At(a).src <= c

\* C4 witness: a closed loop with a body, nested in another block, so that
\* the loop head is neither address 0 nor address 1.
C4_Witness ==
    /\ phase = "ok"
    /\ \E s \in Loops :
         /\ Closed(s)
         /\ Encl(s) # <<>>
         /\ LoopHead(s) > 1
         /\ AddrAfter(CloseOf(s)) - 1 > LoopHead(s) + 1

\* The loop that the break statement i names: position in LoopsAround(i) of
\* the innermost loop, or of the nearest loop with the label of the break
\* (0 when there is none).
BreakLoopIdx(i) ==
    LET ls == LoopsAround(i)
        hits == IF script[i].label = {}
                THEN 1..Len(ls)
                ELSE {k \in 1..Len(ls) : script[ls[k]].label = script[i].label}
    IN  IF hits = {} THEN 0 ELSE CHOOSE k \in hits : \A m \in hits : k <= m

\* The break statement i compiled to ForEveryPartPop(n), Jmp; once the loop
\* at position n around it is closed the Jmp targets the instruction right
\* after the closing Jmp of that loop.
BreakExits(i, n) ==
    LET ls == LoopsAround(i)
        e == Emitted(i)
    IN  /\ n >= 1 /\ n <= Len(ls)
        /\ Len(e) = 2
        /\ e[1].op = "ForEveryPartPop" /\ e[1].n = n
        /\ e[2].op = "Jmp"
        /\ Closed(ls[n]) =>
             /\ e[2].addr = AddrAfter(CloseOf(ls[n]))
             /\ At(e[2].addr - 1).op = "Jmp"
             /\ At(e[2].addr - 1).addr = LoopHead(ls[n])

\* C5: a break without :name inside one or more foreverypart loops, at any
\* depth of intervening if / elsif / else blocks, compiles to
\* ForEveryPartPop(1) followed by a Jmp patched to the instruction right
\* after the closing Jmp of the innermost enclosing foreverypart, so that it
\* exits exactly that loop.
C5_BreakInnermost ==
    \A i \in Breaks : script[i].label = {} => BreakExits(i, 1)

\* C5 witness: a compiled program with a break that sits in an if block
\* inside a loop.
C5_Witness ==
    /\ phase = "ok"
    /\ \E i \in Breaks :
         /\ script[i].label = {}
         /\ Encl(i) # <<>>
         /\ script[Last(Encl(i))].w = "if"
         /\ LoopsAround(i) # <<>>

\* C6: break :name L compiles to ForEveryPartPop(n) followed by a Jmp, where
\* n counts the enclosing foreverypart blocks from the innermost up to and
\* including the nearest one labelled L (if / elsif / else blocks are not
\* counted), and the Jmp is patched to the instruction right after the
\* closing Jmp of that labelled loop.
C6_BreakLabelled ==
    \A i \in Breaks : script[i].label # {} => BreakExits(i, BreakLoopIdx(i))

\* C6 witness: a compiled program where break :name crosses an unlabelled
\* loop to leave a labelled one (n = 2) and both loops are closed.
C6_Witness ==
    /\ phase = "ok"
    /\ \E i \in Breaks :
         /\ script[i].label # {}
         /\ BreakLoopIdx(i) = 2
         /\ script[LoopsAround(i)[1]].label = {}

\* C7: compile fails and returns no Sieve when a break without :name has no
\* enclosing foreverypart, and when break :name L has no enclosing
\* foreverypart labelled L even though other loops enclose it.
C7_BreakNeedsLoop ==
    \A i \in 1..Len(script) :
        (script[i].w = "break" /\ BreakLoopIdx(i) = 0) =>
            /\ phase = "err"
            /\ i = Len(script)
            /\ error.line_num = i
            /\ sieve = NoSieve
            /\ Emitted(i) = <<>>

\* C7 witness: compilation failed at a break :name inside a loop that has no
\* label.
C7_Witness ==
    /\ phase = "err"
    /\ script[Len(script)].w = "break"
    /\ script[Len(script)].label # {}
    /\ LoopsAround(Len(script)) # <<>>
    /\ BreakLoopIdx(Len(script)) = 0

\* C8: return compiles to ForEveryPartPop(n) immediately followed by Return,
\* where n is the number of foreverypart blocks among the current block and
\* the blocks on the block stack; when n is 0 only Return is emitted.
C8_ReturnPops ==
    \A i \in 1..Len(script) :
        (script[i].w = "return" /\ Compiled(i)) =>
            LET n == Len(LoopsAround(i))
            IN  Emitted(i) = IF n = 0
                             THEN <<IReturn(i)>>
                             ELSE <<IForEveryPartPop(n, i), IReturn(i)>>

\* C8 witness: a return directly inside a loop that is itself inside a loop.
C8_Witness ==
    \E i \in 1..Len(script) :
        /\ script[i].w = "return" /\ Compiled(i)
        /\ Len(LoopsAround(i)) = 2
        /\ script[Last(Encl(i))].w = "foreverypart"

\* The token stream of the script has ended.
AtEOF == script # <<>> /\ Last(script).w = "EOF"

\* The column at which the block of statement s opens: the number of tokens
\* of the statement before its '{'.
OpenCol(s) ==
    IF script[s].w \in {"if", "elsif"} THEN 2
    ELSE IF script[s].w = "foreverypart" /\ script[s].label # {} THEN 3
    ELSE 1

\* C9: compile returns a Sieve only if the block stack is empty when the
\* token stream ends; if any block is still open at the end it fails with
\* UnterminatedBlock carrying the line and column recorded when the innermost
\* unclosed block was opened.
C9_EndOfScript ==
    /\ Returned => (AtEOF /\ OpenStack(Len(script)) = <<>> /\ block_stack = <<>>)
    /\ AtEOF =>
         LET open == OpenStack(Len(script))
         IN  IF open = <<>>
             THEN /\ Returned
                  /\ sieve.instructions = instructions
             ELSE /\ phase = "err"
                  /\ sieve = NoSieve
                  /\ error = [error_type |-> "UnterminatedBlock",
                              line_num |-> Last(open),
                              line_pos |-> OpenCol(Last(open))]

\* C9 witness: the script ended inside two nested blocks that were opened on
\* different lines at different columns.
C9_Witness ==
    /\ AtEOF
    /\ phase = "err"
    /\ LET open == OpenStack(Len(script))
       IN  /\ Len(open) = 2
           /\ OpenCol(open[1]) # OpenCol(open[2])
           /\ error.line_num = open[2]

\* a is a prefix of b.
IsPrefix(a, b) == Len(a) <= Len(b) /\ SubSeq(b, 1, Len(a)) = a

\* The capabilities in scope at statement i: those of the require statements
\* before i that stand in a block still open at i.
InScope(i) ==
    UNION {script[j].caps :
             j \in {k \in 1..(i - 1) : script[k].w = "require" /\ IsPrefix(Encl(k), Encl(i))}}

\* The capabilities that gate each extension command.
Gate(w) ==
    CASE w = "fileinto" -> {"fileinto"}
      [] w = "foreverypart" -> {"foreverypart"}
      [] w = "break" -> {"foreverypart"}
      [] w = "replace" -> {"replace"}
      [] w = "enclose" -> {"enclose"}
      [] w = "extracttext" -> {"extracttext"}
      [] w = "convert" -> {"convert"}
      [] w = "addheader" -> {"editheader"}
      [] w = "deleteheader" -> {"editheader"}
      [] w = "set" -> {"variables"}
      [] w = "notify" -> {"enotify"}
      [] w = "reject" -> {"reject"}
      [] w = "ereject" -> {"ereject"}
      [] w = "vacation" -> {"vacation"}
      [] w = "error" -> {"ihave"}
      [] w = "setflag" -> {"imap4flags"}
      [] w = "addflag" -> {"imap4flags"}
      [] w = "removeflag" -> {"imap4flags"}
      [] w = "include" -> {"include"}
      [] w = "return" -> {"include"}
      [] w = "global" -> {"include", "variables"}
      [] OTHER -> {}

\* C10: with capability checking enabled, no instruction of an extension
\* command is emitted unless its capability (fileinto, foreverypart for
\* foreverypart and break, replace, enclose, extracttext, convert, editheader
\* for addheader and deleteheader, variables for set, enotify for notify,
\* reject, ereject, vacation, ihave for error, imap4flags for the flag
\* commands, include for include and return, include and variables for
\* global) is in scope; a script that uses one of them without it fails to
\* compile.
C10_CapabilityGated ==
    ~compiler.no_capability_check =>
        \A i \in 1..Len(script) :
            ~(Gate(script[i].w) \subseteq InScope(i)) =>
                /\ phase = "err"
                /\ i = Len(script)
                /\ Emitted(i) = <<>>
                /\ script[i].w = "global" => script[i].name \notin vars_global

\* C10 witness: compilation failed at a fileinto whose capability was
\* required only inside a block that is closed by then.
C10_Witness ==
    /\ ~compiler.no_capability_check
    /\ phase = "err"
    /\ script[Len(script)].w = "fileinto"
    /\ Encl(Len(script)) = <<>>
    /\ \E j \in 1..Len(script) :
         /\ script[j].caps = {"fileinto"}
         /\ Encl(j) # <<>>

\* The step reads a statement whose command word is no command.
InvalidRead == script' # script /\ Last(script').w \in InvalidWords

\* C11: an unrecognised command word never fails compilation by itself: the
\* statement is skipped, exactly one Invalid instruction with the name of the
\* command and the line and column of the command token is appended, and
\* compilation continues with the next statement on an unchanged block stack.
C11_InvalidTolerated ==
    [][InvalidRead =>
          /\ phase' = "compile"
          /\ error' = NoError
          /\ instructions' =
                 Append(instructions,
                        [op |-> "Invalid", name |-> Last(script').w,
                         line_num |-> Len(script'), line_pos |-> 0, src |-> Len(script')])
          /\ block_stack' = block_stack
          /\ block' = block
          /\ last_block_type' = last_block_type]_vars

\* C11 witness: a compiled script in which an unknown command inside a block
\* is followed by another statement of that block.
C11_Witness ==
    /\ phase = "ok"
    /\ \E i \in 1..(Len(script) - 1) :
         /\ script[i].w \in InvalidWords
         /\ Encl(i) # <<>>
         /\ script[i + 1].w = "discard"
         /\ Len(Emitted(i)) = 1
         /\ Len(Emitted(i + 1)) = 1

\* The step reads the '}' that closes the current block.
BlockCloses == script' # script /\ Last(script').w = "}" /\ phase' = "compile"

\* The instructions that the step appended.
Appended == SubSeq(instructions', Len(instructions) + 1, Len(instructions'))

\* The Clear instructions among the instructions of seq.
Clears(seq) == SelectSeq(seq, LAMBDA x : x.op = "Clear")

\* The indices of the local variables registered in block blk.
LocalIds(blk) == {v.id : v \in blk.vars_local}

\* The indices of the locals visible from the blocks of stack.
StackIds(stack) == UNION {LocalIds(stack[k]) : k \in 1..Len(stack)}

\* The indices allocated in the current block: those that the Set
\* instructions of the statements directly inside it assign and that no
\* enclosing block holds.
AllocatedHere ==
    {instructions[a].local :
        a \in {b \in 1..Len(instructions) :
                  /\ instructions[b].op = "Set"
                  /\ "local" \in DOMAIN instructions[b]
                  /\ Encl(instructions[b].src) = OpenStack(Len(script))}}
    \ StackIds(block_stack)

VisibleVars ==
    block.vars_local \cup UNION {block_stack[k].vars_local : k \in 1..Len(block_stack)}

\* The Local indices that the Set instructions of prog assign.
LocalsUsed(prog) ==
    {prog[a].local :
        a \in {b \in 1..Len(prog) : prog[b].op = "Set" /\ "local" \in DOMAIN prog[b]}}

SetCompiled == script' # script /\ Last(script').w = "set" /\ phase' = "compile"

\* The local variables visible from the current block whose name differs
\* from name at most in ASCII case.
SameLocal(name) ==
    {v \in VisibleVars : to_ascii_lowercase(v.name) = to_ascii_lowercase(name)}

\* C16: variable identity is ASCII-case-insensitive: a set of a name that
\* differs only in case from a visible local is given the index of that
\* local, no new index is allocated and vars_num does not grow; global names
\* that differ only in case are the same global.
C16_CaseInsensitive ==
    [][SetCompiled =>
          LET name == Last(script').name
          IN  /\ is_var_global(vars_global, name) =>
                   /\ vars_num' = vars_num
                   /\ Appended = <<ISetGlobal(to_ascii_lowercase(name), Len(script'))>>
              /\ (~is_var_global(vars_global, name) /\ SameLocal(name) # {}) =>
                   /\ vars_num' = vars_num
                   /\ Len(Appended) = 1
                   /\ \E v \in SameLocal(name) :
                          Appended = <<ISet(v.id, Len(script'))>>]_vars

\* ---------------------------------------------------------------- C14
\* A statement with ${n} was compiled in this step.
MatchVarRead == phase = "compile" /\ Len(script') = Len(script) + 1
                /\ Last(script').w = "redirect" /\ phase' = "compile"

\* The blocks open before the step, the current one first.
OpenBlocks == <<block>> \o Reverse(block_stack)
OpenBlocksAfter == <<block'>> \o Reverse(block_stack')

\* The position in OpenBlocks of the block register_match_var is to select:
\* the first one with pending match tests, 0 when there is none.
SelectedBlock ==
    LET has == {i \in 1..Len(OpenBlocks) : OpenBlocks[i].match_test_pos # <<>>}
    IN  IF has = {} THEN 0 ELSE CHOOSE i \in has : \A j \in has : i <= j

\* The addresses recorded in match_test_pos of a block.
TestsOf(blk) == {blk.match_test_pos[k] : k \in 1..Len(blk.match_test_pos)}

\* C14: when register_match_var(n) returns true, every test recorded in
\* match_test_pos of the selected block (the current block if it has pending
\* match tests, otherwise the nearest enclosing block that has) has bit n
\* set and no other instruction is modified; when no block has pending match
\* tests it returns false and changes nothing.
C14_MatchVarRegistered ==
    [][MatchVarRead =>
         LET n == CHOOSE n \in 1..MaxMatchVariables : MatchVarName(n) = Last(script').name
             returned == Last(instructions').match # {}
         IN  /\ Len(instructions') = Len(instructions) + 1
             /\ IF SelectedBlock # 0
                THEN /\ returned
                     /\ Last(instructions').match = {n}
                     /\ \A a \in 0..(Len(instructions) - 1) :
                          IF a \in TestsOf(OpenBlocks[SelectedBlock])
                          THEN instructions'[a + 1].positions
                                   = instructions[a + 1].positions \cup {n}
                          ELSE instructions'[a + 1] = instructions[a + 1]
                     /\ \A i \in 1..Len(OpenBlocks) :
                          i # SelectedBlock => OpenBlocksAfter[i] = OpenBlocks[i]
                ELSE /\ ~returned
                     /\ SubSeq(instructions', 1, Len(instructions)) = instructions
                     /\ block' = block
                     /\ block_stack' = block_stack
                     /\ vars_match_max' = vars_match_max]_vars

\* ${2} was registered on the test of an enclosing block, the current block
\* having no pending test, while a test of another block kept its mask.
C14_Witness ==
    /\ phase = "compile"
    /\ Len(script) >= 2
    /\ Last(script).w = "redirect"
    /\ Last(instructions).match = {2}
    /\ block.match_test_pos = <<>>
    /\ \E i \in 1..Len(block_stack) :
         /\ block_stack[i].match_test_pos # <<>>
         /\ \A a \in TestsOf(block_stack[i]) : 2 \in At(a).positions
    /\ \E a \in 1..Len(instructions) :
         /\ instructions[a].op = "Test"
         /\ "positions" \in DOMAIN instructions[a]
         /\ 2 \notin instructions[a].positions

\* ---------------------------------------------------------------- C15
\* The bits register_match_var set on the tests recorded in a block.
AccumulatedMask(blk) == UNION {At(a).positions : a \in TestsOf(blk)}

\* C15: the match_vars mask of the Clear emitted when a block closes contains
\* every bit that register_match_var set on any test recorded in that
\* block's match_test_pos, whatever the order in which tests were added and
\* match variables registered.
C15_ClearHoldsAccumulatedMask ==
    [][BlockCloses /\ AccumulatedMask(block) # {} =>
         /\ Len(Clears(Appended)) = 1
         /\ AccumulatedMask(block) \subseteq Clears(Appended)[1].match_vars]_vars

\* ---------------------------------------------------------------- C17
\* The step reads a global statement.
GlobalRead == phase = "compile" /\ script' # script /\ Last(script').w = "global"

\* The names of the locals visible from the current block, folded.
VisibleNames == {to_ascii_lowercase(v.name) : v \in VisibleVars}

OpenNow == OpenStack(Len(script))

\* The step reads a statement that opens a block.
BlockWordRead == phase = "compile" /\ script' # script /\ Last(script').w \in BlockWords

\* C18: the number of simultaneously open blocks never exceeds
\* max_nested_blocks: a statement that would open a block at that depth
\* fails, with TooManyNestedBlocks unless its own arm rejected it first, and
\* no Sieve is returned.
C18_NestedBlocksBounded ==
    [][/\ (phase' # "err" => Len(OpenNow') <= compiler.max_nested_blocks)
       /\ (BlockWordRead /\ Len(OpenNow) = compiler.max_nested_blocks) =>
             /\ phase' = "err"
             /\ sieve' = NoSieve
             /\ \/ error'.error_type = "TooManyNestedBlocks"
                \/ /\ Last(script').w # "if"
                   /\ error'.error_type \in
                        {"UnexpectedToken", "UndeclaredCapability", "label already defined",
                         "too many nested 'foreverypart' blocks"}
       /\ (phase = "err" => phase' = "err")]_vars

\* C18 witness: an if read with max_nested_blocks blocks open failed.
C18_Witness ==
    /\ phase = "err"
    /\ error.error_type = "TooManyNestedBlocks"
    /\ Last(script).w = "if"
    /\ Len(Encl(Len(script))) = compiler.max_nested_blocks
    /\ Len(block_stack) = compiler.max_nested_blocks
    /\ sieve = NoSieve

\* ---------------------------------------------------------------- C19
\* The foreverypart loops statement i is nested in, itself included when it
\* is a foreverypart.
LoopDepth(i) ==
    Len(LoopsAround(i)) + (IF script[i].w = "foreverypart" THEN 1 ELSE 0)

\* C19: in a compiled program the number of foreverypart loops nested inside
\* one another never exceeds max_nested_foreverypart: a foreverypart read
\* inside max_nested_foreverypart open loops fails.
C19_NestedLoopsBounded ==
    Returned => \A i \in 1..Len(script) : LoopDepth(i) <= compiler.max_nested_foreverypart

\* ---------------------------------------------------------------- C20
\* The Include instructions of prog.
Includes(prog) == {a \in 1..Len(prog) : prog[a].op = "include"}

\* The step reads an include statement.
IncludeRead == phase = "compile" /\ script' # script /\ Last(script').w = "include"

\* C20: a program holds at most max_includes Include instructions, and the
\* include that would exceed the limit fails with TooManyIncludes.
C20_IncludesBounded ==
    [][/\ Cardinality(Includes(instructions')) <= compiler.max_includes
       /\ (Returned' => Cardinality(Includes(sieve'.instructions)) <= compiler.max_includes)
       /\ (IncludeRead /\ Cardinality(Includes(instructions)) = compiler.max_includes) =>
             /\ phase' = "err"
             /\ error'.error_type = "TooManyIncludes"
             /\ sieve' = NoSieve]_vars

\* C20 witness: with max_includes Include instructions compiled, one more
\* include failed.
C20_Witness ==
    /\ phase = "err"
    /\ error.error_type = "TooManyIncludes"
    /\ Last(script).w = "include"
    /\ Cardinality(Includes(instructions)) = compiler.max_includes
    /\ compiler.max_includes > 0

\* ---------------------------------------------------------------- C21
\* C21: compile rejects a script with ScriptTooLong exactly when its byte
\* length is greater than max_script_size, before any token is read or
\* instruction emitted; a script of exactly max_script_size bytes is not
\* rejected for its size.
C21_ScriptTooLong ==
    /\ budget.size > compiler.max_script_size =>
         /\ phase \in {"new", "err"}
         /\ script = <<>>
         /\ instructions = <<>>
         /\ phase = "err" => error = [error_type |-> "ScriptTooLong", line_num |-> 0,
                                        line_pos |-> 0]
    /\ budget.size <= compiler.max_script_size => error.error_type # "ScriptTooLong"

\* C21 witness: a script of exactly max_script_size bytes was compiled into a
\* program.
C21_Witness ==
    /\ phase = "ok"
    /\ compiler.max_script_size = MaxScriptSize
    /\ budget.size = compiler.max_script_size
    /\ BytesOf(script) = budget.size
    /\ sieve.instructions # <<>>

\* ---------------------------------------------------------------- C22
\* C22: the number of local variables is bounded by max_local_variables: a
\* script that would register more locals fails compilation, so num_vars of
\* a compiled program never exceeds max_local_variables.
C22_LocalsBounded ==
    /\ phase = "compile" => vars_num <= compiler.max_local_variables
    /\ Returned => sieve.num_vars <= compiler.max_local_variables

\* ---------------------------------------------------------------- C23
\* The bits of the test masks and Clear masks of prog.
MaskBits(prog) ==
    UNION {IF "positions" \in DOMAIN prog[a] THEN prog[a].positions
           ELSE IF "match_vars" \in DOMAIN prog[a] THEN prog[a].match_vars
           ELSE {} : a \in 1..Len(prog)}

\* The match variables that the strings of prog read.
MatchVarsRead(prog) ==
    UNION {IF "match" \in DOMAIN prog[a] THEN prog[a].match ELSE {} : a \in 1..Len(prog)}

\* C23: every match-variable index whose bit is set in a test mask or a Clear
\* mask is below 63, for every max_match_variables that the setters accept,
\* so that 1 << num in register_match_var never reaches the width of the
\* mask: no compilation panics on the shift or its assertion, and every
\* index registered has its own bit.
C23_MatchBitsBelow63 ==
    /\ phase # "panic"
    /\ \A b \in MaskBits(instructions) : b < MaxMatchBit
    /\ \A n \in MatchVarsRead(instructions) : n < MaxMatchBit

\* ---------------------------------------------------------------- C24
\* A Set instruction is executed in this step.
SetExecuted == Running /\ Cur.op = "Set" /\ pc' = pc + 1

\* The value that the Set instruction hands to set_variable: its value after
\* its chain of modifiers.
Handed == ApplyAll(Cur.modifiers, Cur.value, ctx.max_variable_size)

\* The prefixes of str, which are made of whole characters.
Prefixes(str) == {SubSeq(str, 1, k) : k \in 0..Len(str)}

\* The longest prefix of str of at most max bytes.
LongestPrefix(str, max) ==
    CHOOSE q \in Prefixes(str) :
        /\ ByteLen(q) <= max
        /\ \A r \in Prefixes(str) : ByteLen(r) <= max => Len(r) <= Len(q)

\* The value that the step stored in the target of the Set instruction.
Stored ==
    IF "local" \in DOMAIN Cur THEN ctx'.vars_local[Cur.local + 1]
    ELSE IF "global" \in DOMAIN Cur
    THEN (CHOOSE g \in ctx'.vars_global : g.name = Cur.global).value
    ELSE (CHOOSE e \in {ctx'.envelope[i] : i \in 1..Len(ctx'.envelope)} :
              e.name = Cur.envelope).value

\* C24: set_variable stores a value within max_variable_size unchanged, and
\* of a longer one the longest prefix of whole characters that is at most
\* max_variable_size bytes long, whether the target is a local, a global or
\* an envelope part and whatever modifiers were applied before.
C24_TruncatedOnCharBoundary ==
    [][SetExecuted =>
         /\ Stored = LongestPrefix(Handed, ctx.max_variable_size)
         /\ ByteLen(Handed) <= ctx.max_variable_size => Stored = Handed
         /\ "envelope" \in DOMAIN Cur =>
              Last(ctx'.queued_events) = SetEnvelopeEvent(Cur.envelope, Stored)]_vars

\* C24 witness: a value of three bytes was cut before its two-byte
\* character, one byte short of max_variable_size, in an envelope part, after
\* a value that its modifier had made three bytes long was cut in a local.
C24_Witness ==
    /\ phase = "run"
    /\ ctx.max_variable_size = 2
    /\ pc = 2
    /\ "local" \in DOMAIN At(0)
    /\ At(0).modifiers = <<"Upper">>
    /\ At(0).value = <<"sz", "*">>
    /\ ctx.vars_local[At(0).local + 1] = <<"S", "S">>
    /\ "envelope" \in DOMAIN At(1)
    /\ At(1).modifiers = <<>>
    /\ At(1).value = <<"*", "sz">>
    /\ \E i \in 1..Len(ctx.envelope) : ctx.envelope[i].value = <<"*">>

\* ------------------------------------------------------------ C25, C26
\* The instructions of a straight-line program that the run has executed, in
\* the order of execution: those at the addresses 0..last.
ExecutedInstructions ==
    IF phase \in {"run", "done"} THEN SubSeq(sieve.instructions, 1, last + 1) ELSE <<>>

\* FileInto, Redirect, Reject, Ereject, Discard and the explicit Keep cancel
\* the implicit keep.
CancelingOps == {"FileInto", "Redirect", "Reject", "Ereject", "Discard", "Keep"}

\* The canceling actions the run has executed, in the order of execution.
CancelingExecuted ==
    LET canc == SelectSeq(ExecutedInstructions, LAMBDA ins : ins.op \in CancelingOps)
    IN  [i \in 1..Len(canc) |-> Action(canc[i])]

\* The last event delivered to the host.
LastDelivered == ctx.delivered[Len(ctx.delivered)]

ImplicitKeep == [kind |-> "Keep", target |-> ""]

FirstExecution(act) ==
    CHOOSE j \in 1..Len(CancelingExecuted) :
        /\ CancelingExecuted[j] = act
        /\ \A k \in 1..(j - 1) : CancelingExecuted[k] # act

RunAt(a) == sieve.instructions[a + 1]

\* The loops of the program, each named by the address of its
\* ForEveryPartPush; its ForEveryPart follows at the next address.
RunLoops == {p \in 0..(Len(sieve.instructions) - 1) : RunAt(p).op = "ForEveryPartPush"}

\* The address that the loop's ForEveryPart jumps to on exhaustion.
LoopExit(p) == RunAt(p + 1).jz_pos

\* The part iterators that belong on the stack when control is at address a:
\* one for each loop whose ForEveryPart .. Jmp range holds a, less those that
\* the ForEveryPartPop just before a has dropped.
DepthAt(a) ==
    Cardinality({p \in RunLoops : p < a /\ a < LoopExit(p)})
      - (IF a > 0 /\ RunAt(a - 1).op = "ForEveryPartPop" THEN RunAt(a - 1).n ELSE 0)

\* At every instruction the stack holds the iterators of the loops around it,
\* and the exit of a loop is at the depth of its ForEveryPartPush.
C27_Depth ==
    phase = "run" =>
        /\ Len(part_stack) = DepthAt(pc)
        /\ \A p \in RunLoops :
              /\ RunAt(p + 1).op = "ForEveryPart"
              /\ LoopExit(p) > p + 1
              /\ RunAt(LoopExit(p) - 1) = IJmp(p + 1, RunAt(LoopExit(p) - 1).src)
              /\ DepthAt(LoopExit(p)) = DepthAt(p)

\* ForEveryPart enters the body with the next part while there is one, and
\* otherwise drops the iterator and goes to the instruction after the loop;
\* no other instruction touches an iterator that stays on the stack.
C27_Step ==
    (phase = "run" /\ phase' = "run") =>
        LET d == Len(part_stack)
            kept == IF Len(part_stack') < d THEN Len(part_stack') ELSE d
        IN  IF Cur.op = "ForEveryPart"
            THEN /\ d > 0
                 /\ \A i \in 1..(d - 1) : part_stack'[i] = part_stack[i]
                 /\ IF part_stack[d].next <= part_stack[d].parts
                    THEN /\ pc' = pc + 1
                         /\ Len(part_stack') = d
                         /\ part_stack'[d] =
                               [part_stack[d] EXCEPT !.next = part_stack[d].next + 1]
                    ELSE /\ pc' = Cur.jz_pos
                         /\ Len(part_stack') = d - 1
            ELSE \A i \in 1..kept : part_stack'[i] = part_stack[i]

\* C27: every foreverypart loop terminates: the run of a compiled program
\* ends; the body of a loop is entered once for each part of its iterator, in
\* order; on exhaustion control goes to the instruction after the loop; and
\* wherever control is, by exhaustion or by break, the iterator stack has the
\* depth of the loops around that instruction, which after a loop is the depth
\* before its ForEveryPartPush.
C27_ForEveryPartTerminates ==
    /\ []C27_Depth
    /\ [][C27_Step]_vars
    /\ (phase = "run") ~> (phase = "done")

\* C27 witness: the body of an inner loop is entered for the second of two
\* parts during the second of two parts of the outer loop, so the inner loop
\* was exhausted and left once before.
C27_Witness ==
    /\ phase = "run"
    /\ Len(part_stack) = 2
    /\ part_stack[1] = [parts |-> 2, next |-> 3]
    /\ part_stack[2] = [parts |-> 2, next |-> 3]
    /\ last >= 0
    /\ RunAt(last).op = "ForEveryPart"
    /\ pc = last + 1

\* ------------------------------------------------------------------- C28
\* The events delivered so far followed by those still queued: the order in
\* which the host gets them if none is lost.
EventOrder(c) == c.delivered \o c.queued_events

SecondReturned == budget.replay # <<>> /\ phase \in {"ok", "err"}

\* The second compilation read the same script and returned what the first
\* returned: the same Sieve (instructions, num_vars, num_match_vars) or the same
\* error.
C29_SameResult ==
    SecondReturned =>
        /\ script = budget.replay
        /\ [phase |-> phase, sieve |-> sieve, error |-> error] = budget.first

RegexAt(s) == {i \in 1..Len(s.instructions) : "regex" \in DOMAIN s.instructions[i]}

C31_DefaultsAndSetters ==
    /\ [](script = <<>> /\ phase = "config" =>
            /\ compiler.max_script_size = 1048576
            /\ compiler.max_string_size = 4096
            /\ compiler.max_variable_name_size = 32
            /\ compiler.max_nested_blocks = 15
            /\ compiler.max_nested_tests = 15
            /\ compiler.max_nested_foreverypart = 3
            /\ compiler.max_match_variables = 30
            /\ compiler.max_local_variables = 128
            /\ compiler.max_header_size = 1024
            /\ compiler.max_includes = 6
            /\ ~compiler.no_capability_check
            /\ DOMAIN compiler = Options)
    /\ [][phase = "config" =>
            LET call == Last(script')
            IN  /\ DOMAIN compiler' = DOMAIN compiler
                /\ compiler'[call.option] = call.size
                /\ \A other \in DOMAIN compiler \ {call.option} :
                      compiler'[other] = compiler[other]]_vars

\* C31 witness: set_max_nested_tests(7) then with_no_capability_check(TRUE)
\* on a new Compiler.
C31_Witness ==
    /\ phase = "config"
    /\ Len(script) = 2
    /\ script[1].w = "set" /\ script[1].option = "max_nested_tests"
    /\ script[2].w = "with" /\ script[2].option = "no_capability_check"
    /\ script[1].size = 7
    /\ script[2].size
    /\ compiler = [CompilerNew EXCEPT !.max_nested_tests = 7, !.no_capability_check = TRUE]

\* ------------------------------------------------------------------- C32
\* C32: an elsif or else is accepted only as the direct continuation of an if
\* or elsif block whose '}' is the statement right before it; in any other
\* position compilation fails at it with UnexpectedToken.
C32_ElseOnlyAfterIf ==
    \A i \in 1..Len(script) :
       (script[i].w \in {"elsif", "else"} /\ PrevBranch(i) = 0) =>
           /\ ~Compiled(i)
           /\ error.error_type = "UnexpectedToken"

\* ------------------------------------------------------------------- C33
\* The foreverypart statements that were compiled and whose blocks are open.
OpenLoops ==
    {OpenNow[k] : k \in {j \in 1..Len(OpenNow) :
                            /\ script[OpenNow[j]].w = "foreverypart"
                            /\ Compiled(OpenNow[j])}}

\* C33: the labels of the open foreverypart blocks are pairwise distinct: a
\* foreverypart :name L inside a still open foreverypart labelled L, the
\* directly enclosing one included, is not compiled.
C33_LabelsDistinct ==
    \A i, j \in OpenLoops :
       (i # j /\ script[i].label # {}) => script[i].label # script[j].label

\* ------------------------------------------------------------------- C34
\* C34: a global declaration whose name is at most as long as the limit the
\* check reads, a name of exactly that length included, does not fail with
\* VariableTooLong.
C34_GlobalNameWithinLimit ==
    (/\ phase = "err"
     /\ Last(script).w = "global"
     /\ Len(Last(script).name) <= compiler.max_variable_size)
        => error.error_type # "VariableTooLong"

\* ------------------------------------------------------------------- C35
\* The set statement i is the first use of its name in its block: no
\* earlier set of the name stands in a block that is still open at i.
Registers(i) ==
    /\ script[i].w = "set"
    /\ ~\E j \in 1..(i - 1) :
          /\ script[j].w = "set"
          /\ to_ascii_lowercase(script[j].name) = to_ascii_lowercase(script[i].name)
          /\ IsPrefix(Encl(j), Encl(i))

BlockChainOpen == Append(block_stack, block)

\* The pending jumps of the block b all stand on a Jmp.
JmpsOnJmp(b) ==
    \A k \in 1..Len(b.if_jmps \o b.break_jmps) :
       LET pos == (b.if_jmps \o b.break_jmps)[k]
       IN  pos \in 0..(Len(instructions) - 1) /\ At(pos).op = "Jmp"

\* The block parent was pushed when child was opened: its last_block_start
\* is the address of the instruction that the close of child patches.
StartOfChild(parent, child) ==
    /\ parent.last_block_start \in 0..(Len(instructions) - 1)
    /\ child.btype # "Not"
    /\ child.btype = "ForEveryPart" => At(parent.last_block_start).op = "ForEveryPart"
    /\ child.btype \in {"If", "ElsIf"} => At(parent.last_block_start).op = "Jz"

\* C36: the current block is the root block (btype Not) exactly when the
\* block stack is empty; for every open block the instruction at its parent's
\* last_block_start is the ForEveryPart of the loop or the Jz of the if /
\* elsif, at an address that did not underflow, so no close of a block finds
\* another instruction there; every address in if_jmps and break_jmps holds a
\* Jmp; and a '}' read while no block is open fails with UnexpectedToken.
C36_BlockStructure ==
    LET chain == BlockChainOpen
    IN  /\ (block.btype = "Not") <=> (block_stack = <<>>)
        /\ \A k \in 1..Len(block_stack) : StartOfChild(chain[k], chain[k + 1])
        /\ \A k \in 1..Len(chain) : JmpsOnJmp(chain[k])
        /\ \A i \in 1..Len(script) :
              (script[i].w = "}" /\ Encl(i) = <<>>) =>
                 /\ ~Compiled(i)
                 /\ error.error_type = "UnexpectedToken"

\* An elsif or else block holds a loop with a break in it: the root block waits with
\* the Jmp of the closed if, the loop with the Jmp of the break.
C36_Witness ==
    /\ phase = "compile"
    /\ Len(block_stack) = 2
    /\ block_stack[1].if_jmps # <<>>
    /\ block.btype = "ForEveryPart"
    /\ block.break_jmps # <<>>

\* ------------------------------------------------------------------- C37
\* What the modifier makes of one character when nothing is cut.
EncodedChar(modifier, ch) ==
    CASE modifier = "QuoteWildcard" ->
            IF ch \in {"*", "bs", "?"} THEN <<"bs", ch>> ELSE <<ch>>
      [] modifier = "QuoteRegex" ->
            IF ch \in RegexSpecials THEN <<"bs", ch>> ELSE <<ch>>
      [] modifier = "EncodeUrl" ->
            IF is_ascii_alphanumeric(ch) \/ ch \in {"-", ".", "_", "~"} THEN <<ch>>
            ELSE WriteBytes(<<>>, encode_utf8(ch))

\* The complete encoding of str.
RECURSIVE Encoded(_, _)
Encoded(modifier, str) ==
    IF str = <<>> THEN <<>>
    ELSE EncodedChar(modifier, str[1]) \o Encoded(modifier, Tail(str))

\* C37: for QuoteWildcard, QuoteRegex and EncodeUrl, Modifier::apply returns
\* at most max_variable_size bytes, and what it returns is the complete
\* encoding of a prefix of the input: an escape pair or the %xx escapes of a
\* character are in it entirely or not at all.
C37_WholeEscapes ==
    \A i \in 1..Len(script) :
       phase = "apply" =>
          /\ ByteLen(script[i].result) <= script[i].max_len
          /\ \E k \in 0..Len(script[i].input) :
                script[i].result = Encoded(script[i].w, SubSeq(script[i].input, 1, k))

\* EncodeUrl stops before a space whose escape does not fit in the two bytes
\* that are left.
C37_Witness ==
    /\ phase = "apply"
    /\ Len(script) = 1
    /\ script[1].w = "EncodeUrl"
    /\ script[1].max_len = 5
    /\ script[1].input = <<" ", " ">>
    /\ script[1].result = <<"%", "2", "0">>

\* ------------------------------------------------------------------- C38
\* The envelope list holds at most one entry of each part.
OnePerKind(envelope) ==
    \A i, j \in 1..Len(envelope) : envelope[i].name = envelope[j].name => i = j

\* What the call add_set_envelope_event(call.envelope, call.value) did to the
\* envelope list old, giving new.
EnvelopeUpdated(old, new, call) ==
    /\ Len(new) - Len(old) \in {0, 1}
    /\ \A i \in 1..Len(old) :
          /\ new[i].name = old[i].name
          /\ new[i].value = IF old[i].name = call.envelope THEN call.value
                            ELSE old[i].value
    /\ Len(new) = Len(old) + 1 =>
          /\ new[Len(new)] = [name |-> call.envelope, value |-> call.value]
          /\ \A i \in 1..Len(old) : old[i].name # call.envelope

\* C38: after add_set_envelope_event(kind, v), get_variable(Envelope(kind))
\* returns v; the entry of the kind was overwritten in place, or one entry was
\* appended when there was none, so the list grows by at most one entry and
\* keeps at most one entry per kind; the entries of the other kinds keep
\* their values and their order.
C38_EnvelopeOverwrite ==
    /\ [](phase = "envelope" => OnePerKind(ctx.envelope))
    /\ [][phase = "envelope" =>
            LET call == Last(script')
            IN  /\ get_variable(ctx', [envelope |-> call.envelope]) = {call.value}
                /\ EnvelopeUpdated(ctx.envelope, ctx'.envelope, call)]_vars

\* from was set, then to, then from again: its entry, the first of the list,
\* holds the new value and to still follows it.
C38_Witness ==
    /\ phase = "envelope"
    /\ Len(script) = 3
    /\ script[1].envelope = "from" /\ script[1].value = <<"a">>
    /\ script[2].envelope = "to"
    /\ script[3].envelope = "from" /\ script[3].value = <<"b">>
    /\ ctx.envelope = <<[name |-> "from", value |-> <<"b">>],
                        [name |-> "to", value |-> script[2].value]>>

====
